---- MODULE Spec2Model ----
(***************************************************************************)
(* AI Budget Dashboard: the refresh orchestration of main.py               *)
(* (BudgetDashboardApp) and the alert state machine of notifier.py.        *)
(*                                                                         *)
(* Two specifications:                                                     *)
(*   Spec          the application: refresh triggers, background threads,  *)
(*                 the refresh lock, _refresh_data and the UI update;      *)
(*   NotifierSpec  the notifier module driven through its two entry        *)
(*                 points, check_and_notify and reset_alerts.              *)
(***************************************************************************)
EXTENDS Integers, Sequences, FiniteSets, TLC

VARIABLES
    \* ---- configuration (config.py), fixed after construction
    enabled,            \* provider ids with "enabled": true
    alertThresholds,    \* cfg["alertThresholds"], a list of ints in 1..100
    \* ---- the wall clock
    now_month,          \* datetime.now(timezone.utc).month
    ticks,              \* month changes so far (bounded)
    \* ---- BudgetDashboardApp
    last_month,         \* self._last_month
    usage_data,         \* self.usage_data: dict provider id -> UsageData
    refresh_lock,       \* self._refresh_lock: 0 = free, t = held by thread t
    title,              \* self.title
    ui_pending,         \* AppHelper.callAfter calls not yet run
    \* ---- the background threads started by _refresh_in_background
    pc,                 \* position of each thread
    idx,                \* position in "for pid, provider in self.providers.items()"
    current_month,      \* the local current_month of _refresh_data
    \* ---- notifier.py
    sent_alerts,        \* _sent_alerts
    \* ---- history of the pass in progress (observation only)
    pass_no,            \* number of passes started
    pass_pre,           \* usage_data when the pass started
    fetches,            \* fetch_usage invocations per provider in this pass
    outcome,            \* "none" | "raised" | "returned" per provider
    ret,                \* the snapshot each fetch_usage returned in this pass
    rolled,             \* this pass saw current_month != _last_month
    pass_delivered,     \* alert keys delivered in this pass
    sawHeld,            \* thread t found the refresh lock held
    started,            \* thread t entered _refresh_data
    \* ---- history of the notifier calls (observation only)
    watched,            \* the provider whose calls are observed
    last_call,          \* the watched provider's last call, or the reset after it
    delivered_ok,       \* alert keys with a successful delivery since the last reset
    ex_stage,           \* the watched provider's progress through the usages 70, 82, 96
    \* ---- a library function called on its own
    arg,                \* the arguments (and environment) of the call
    out,                \* its result, once it has returned or raised
    \* ---- calls that take several steps
    pager,              \* a paginated fetch: the locals of its while loop
    callers,            \* concurrent check_and_notify calls: the locals of each
    deliveries          \* notifications delivered, per alert key (observation only)

cfgVars   == <<enabled, alertThresholds>>
clockVars == <<now_month, ticks>>
appVars   == <<last_month, usage_data, refresh_lock, title, ui_pending>>
thrVars   == <<pc, idx, current_month>>
passVars  == <<pass_no, pass_pre, fetches, outcome, ret, rolled, pass_delivered>>
lockHist  == <<sawHeld, started>>
notifHist == <<watched, last_call, delivered_ok, ex_stage>>
loopVars  == <<pager, callers, deliveries>>
callVars  == <<arg, out, loopVars>>
vars == <<cfgVars, clockVars, appVars, thrVars, sent_alerts, passVars, lockHist,
          notifHist, callVars>>

-----------------------------------------------------------------------------
(* Bounds *)

MaxThreads == 3        \* background threads ever started (the initial one included)
MaxTicks == 2          \* month changes of the clock
MaxThresholds == 2     \* length of the configured threshold list

Threads == 1..MaxThreads

-----------------------------------------------------------------------------
(* Configuration: config.py *)

\* main.py: self.providers, in insertion order
Providers == <<"anthropic", "openai", "google", "xai">>
ProviderIds == {Providers[i] : i \in 1..Len(Providers)}

\* config.py DEFAULT_CONFIG["providers"][pid]["budget"]
DefaultBudget == [anthropic |-> 80, openai |-> 60, google |-> 30, xai |-> 30]

get_provider_budget(pid) == DefaultBudget[pid]

is_provider_enabled(cfg_enabled, pid) == pid \in cfg_enabled

\* The "enabled" flags the model draws the configuration from.
EnabledChoices == { ProviderIds, ProviderIds \ {"openai"} }

\* config.py DEFAULT_CONFIG["alertThresholds"]
DefaultThresholds == <<80, 95>>

\* Threshold values of the configured lists: those of the default list.
ThresholdValues == {DefaultThresholds[i] : i \in 1..Len(DefaultThresholds)}

RECURSIVE SeqsUpTo(_, _)
SeqsUpTo(S, n) ==
    IF n = 0 THEN {<<>>}
    ELSE LET shorter == SeqsUpTo(S, n - 1)
         IN shorter \cup {Append(s, x) : s \in shorter, x \in S}

\* _validate_config keeps every int in 1..100, in the order given, duplicates
\* included, and replaces an empty list by [80, 95].
ThresholdChoices == SeqsUpTo(ThresholdValues, MaxThresholds) \ {<<>>}

\* Spend values a fetch can report (dollars).
Spends == {0, 27}

-----------------------------------------------------------------------------
(* providers/base.py: UsageData *)

\* The fields of the dataclass.
UsageDataFields ==
    {"provider_id", "provider_name", "current_spend", "monthly_budget",
     "tokens_in", "tokens_out", "last_updated"}

\* Attribute access on a UsageData instance succeeds for its fields (and its
\* properties and methods); any other name raises AttributeError.
HasAttr(name) ==
    name \in UsageDataFields
        \cup {"remaining", "usage_percent", "format_spend", "format_tokens"}

UsageData(pid, spend, budget, stamp) ==
    [provider_id |-> pid, current_spend |-> spend, monthly_budget |-> budget,
     last_updated |-> stamp]

Min(a, b) == IF a <= b THEN a ELSE b

Max(a, b) == IF a >= b THEN a ELSE b

\* UsageData.remaining
remaining(u) == Max(0, u.monthly_budget - u.current_spend)

\* As usage_percent, without the cap at 100.
usage_percent_uncapped(u) ==
    IF u.monthly_budget <= 0 THEN 0
    ELSE (u.current_spend * 100) \div u.monthly_budget

\* usage_percent, rounded down to a whole percent: the thresholds it is compared
\* with are ints, and floor(x) >= t iff x >= t for an int t.
usage_percent(u) ==
    IF u.monthly_budget <= 0 THEN 0
    ELSE Min(100, (u.current_spend * 100) \div u.monthly_budget)

-----------------------------------------------------------------------------
(* notifier.py *)

\* What subprocess.run(["osascript", ...], timeout=5) can do.
DeliveryOutcomes == {"exit0", "nonzero", "timeout"}

\* As send_notification, but taking a timeout for a delivery.
send_notification_timeout_ok(o) == o \in {"exit0", "timeout"}

\* _send_notification: True only for a zero exit status; a non-zero status
\* gives False, and so does the except clause (TimeoutExpired, and likewise
\* FileNotFoundError and OSError).
send_notification(o) ==
    CASE o = "exit0"   -> TRUE
      [] o = "nonzero" -> FALSE
      [] o = "timeout" -> FALSE

\* As AlertKey, but leaving the provider out of the key.
AlertKeyWithoutProvider(pid, threshold) == <<"anthropic", threshold>>

\* alert_key = f"{provider_id}_{threshold}": the provider ids hold no digit and
\* the threshold is an int, so the key determines the pair and the pair the key.
AlertKey(pid, threshold) == <<pid, threshold>>

RECURSIVE Insert(_, _)
Insert(x, s) ==
    IF s = <<>> THEN <<x>>
    ELSE IF x < Head(s) THEN <<x>> \o s
    ELSE <<Head(s)>> \o Insert(x, Tail(s))

RECURSIVE Sorted(_)
Sorted(s) == IF s = <<>> THEN <<>> ELSE Insert(s[Len(s)], Sorted(SubSeq(s, 1, Len(s) - 1)))

\* As IterationOrder, but in the configured order.
IterationOrderAsGiven(thresholds) == thresholds

\* "for threshold in sorted(thresholds)"
IterationOrder(thresholds) == Sorted(thresholds)

\* As ShouldAlert, but with > for >=.
ShouldAlertStrict(percent, threshold, already_sent) ==
    percent > threshold /\ ~already_sent

\* "if usage_percent >= threshold and not already_sent"
ShouldAlert(percent, threshold, already_sent) ==
    percent >= threshold /\ ~already_sent

\* As MarkSent, but never recording the alert.
MarkSentNever(sent, alert_key, delivered) == sent

\* As MarkSent, but recording the alert whether or not it was delivered.
MarkSentAlways(sent, alert_key, delivered) == sent \cup {alert_key}

\* "if delivered: _sent_alerts.add(alert_key)"
MarkSent(sent, alert_key, delivered) ==
    IF delivered THEN sent \cup {alert_key} ELSE sent

\* The loop of check_and_notify from position i on. outs[k] is what osascript
\* does on the k-th delivery of the call. The result is the final _sent_alerts
\* and the deliveries attempted, in order, each with what osascript did.
RECURSIVE CheckLoop(_, _, _, _, _, _, _)
CheckLoop(ths, i, pid, percent, outs, sent, attempts) ==
    IF i > Len(ths) THEN [sent |-> sent, attempts |-> attempts]
    ELSE LET threshold == ths[i]
             alert_key == AlertKey(pid, threshold)
             already_sent == alert_key \in sent
         IN IF ShouldAlert(percent, threshold, already_sent)
            THEN LET delivered == send_notification(outs[Len(attempts) + 1])
                 IN CheckLoop(ths, i + 1, pid, percent, outs,
                              MarkSent(sent, alert_key, delivered),
                              Append(attempts, [threshold |-> threshold,
                                                outcome |-> outs[Len(attempts) + 1]]))
            ELSE CheckLoop(ths, i + 1, pid, percent, outs, sent, attempts)

\* As check_and_notify, but first forgetting the provider's pairs whose
\* threshold the usage no longer reaches.
check_and_notify_rearming(pid, percent, thresholds, outs, sent) ==
    CheckLoop(IterationOrder(thresholds), 1, pid, percent, outs,
              {k \in sent : k[1] # pid \/ percent >= k[2]}, <<>>)

check_and_notify(pid, percent, thresholds, outs, sent) ==
    CheckLoop(IterationOrder(thresholds), 1, pid, percent, outs, sent, <<>>)

\* The most deliveries a call can attempt: one per iteration whose threshold is
\* reached and not yet notified when the call starts.
MaxAttempts(pid, percent, thresholds, sent) ==
    Cardinality({i \in 1..Len(thresholds) :
                    percent >= thresholds[i] /\ AlertKey(pid, thresholds[i]) \notin sent})

\* What osascript may do on each delivery of one call.
OutcomeChoices(pid, percent, thresholds, sent) ==
    [1..MaxAttempts(pid, percent, thresholds, sent) -> DeliveryOutcomes]

\* As reset_alerts, but clearing nothing.
reset_alerts_keeps(sent) == sent

\* reset_alerts: _sent_alerts.clear()
reset_alerts(sent) == {}

-----------------------------------------------------------------------------
(* History of the notifier calls (observation only) *)

\* The usage values check_and_notify is driven with.
Usages == {70, 80, 82, 96}

\* The usage sequence of the end-to-end example.
ExampleUsages == <<70, 82, 96>>

ThresholdsOf(pid, keys) == {k[2] : k \in {x \in keys : x[1] = pid}}

\* A delivery succeeded when osascript exited with status 0.
Succeeded(a) == a.outcome = "exit0"

AllDelivered(attempts) == \A i \in 1..Len(attempts) : Succeeded(attempts[i])

\* The thresholds a call attempted delivery for.
Tried(attempts) == {attempts[i].threshold : i \in 1..Len(attempts)}

\* The thresholds with a failed delivery in a call.
FailedIn(attempts) ==
    {attempts[i].threshold : i \in {j \in 1..Len(attempts) : ~Succeeded(attempts[j])}}

\* The thresholds with a successful delivery in a call.
DeliveredIn(attempts) ==
    {attempts[i].threshold : i \in {j \in 1..Len(attempts) : Succeeded(attempts[j])}}

\* What a call keeps of the provider's previous event (a call, or the reset
\* after it): whether that call had the same usage, whether all its deliveries
\* succeeded, the thresholds with a failed delivery in it (and those of them
\* with no successful one) and, for a call that this one repeats, what it
\* attempted; for a reset, what was notified before it.
NoPrev ==
    [kind |-> "none", same |-> FALSE, ok |-> FALSE, failed |-> {}, unsent |-> {},
     tried |-> {}, n |-> 0, pre |-> {}]

PrevOf(ev, percent) ==
    IF ev.kind = "call"
    THEN LET rep == ev.usage = percent /\ AllDelivered(ev.attempts)
         IN [kind   |-> "call",
             same   |-> ev.usage = percent,
             ok     |-> AllDelivered(ev.attempts),
             failed |-> FailedIn(ev.attempts),
             unsent |-> FailedIn(ev.attempts) \ DeliveredIn(ev.attempts),
             tried  |-> IF rep THEN Tried(ev.attempts) ELSE {},
             n      |-> IF rep THEN Len(ev.attempts) ELSE 0,
             pre    |-> IF rep THEN ev.pre ELSE {}]
    ELSE [NoPrev EXCEPT !.kind = ev.kind, !.pre = ev.pre]

NoEvent ==
    [kind |-> "none", usage |-> 0, pre |-> {}, pre_ok |-> {}, attempts |-> <<>>,
     prev |-> NoPrev]

CallRecord(pid, percent, res) ==
    [kind     |-> "call",
     usage    |-> percent,
     pre      |-> ThresholdsOf(pid, sent_alerts),
     pre_ok   |-> ThresholdsOf(pid, delivered_ok),
     attempts |-> res.attempts,
     prev     |-> PrevOf(last_call, percent)]

ResetRecord(pid) ==
    [NoEvent EXCEPT !.kind = "reset", !.pre = ThresholdsOf(pid, sent_alerts)]

NextStage(pid, percent, res) ==
    IF percent = ExampleUsages[1] /\ ThresholdsOf(pid, sent_alerts) = {} THEN 1
    ELSE IF ex_stage = 1 /\ percent = ExampleUsages[2] /\ AllDelivered(res.attempts) THEN 2
    ELSE IF ex_stage = 2 /\ percent = ExampleUsages[3] /\ AllDelivered(res.attempts) THEN 3
    ELSE 0

NoteCall(pid, percent, res) ==
    /\ delivered_ok' = delivered_ok \cup
            {AlertKey(pid, t) : t \in DeliveredIn(res.attempts)}
    /\ IF pid = watched
       THEN /\ last_call' = CallRecord(pid, percent, res)
            /\ ex_stage' = NextStage(pid, percent, res)
       ELSE UNCHANGED <<last_call, ex_stage>>
    /\ UNCHANGED watched

NoteReset ==
    /\ last_call' = ResetRecord(watched)
    /\ delivered_ok' = {}
    /\ ex_stage' = 0
    /\ UNCHANGED watched

-----------------------------------------------------------------------------
(* main.py: BudgetDashboardApp *)

RECURSIVE SumOver(_, _)
SumOver(S, f) ==
    IF S = {} THEN 0
    ELSE LET x == CHOOSE y \in S : TRUE IN f[x] + SumOver(S \ {x}, f)

\* config.get_total_budget: the budgets of all enabled providers
get_total_budget(cfg_enabled) ==
    SumOver(cfg_enabled \cap ProviderIds, [p \in ProviderIds |-> get_provider_budget(p)])

\* As get_totals, without the is_provider_enabled test on the cached snapshots.
get_totals_all_cached(cfg_enabled, cache) ==
    <<SumOver(DOMAIN cache, [p \in DOMAIN cache |-> cache[p].current_spend]),
      get_total_budget(cfg_enabled)>>

\* _get_totals: spend over the cached snapshots of enabled providers
get_totals(cfg_enabled, cache) ==
    <<SumOver({p \in DOMAIN cache : is_provider_enabled(cfg_enabled, p)},
              [p \in DOMAIN cache |-> cache[p].current_spend]),
      get_total_budget(cfg_enabled)>>

\* _update_title (compact mode): the totals, or the app name without a budget
update_title(cfg_enabled, cache) ==
    IF get_totals(cfg_enabled, cache)[2] > 0
    THEN get_totals(cfg_enabled, cache)
    ELSE <<"AI Budget">>

NextMonth(m) == IF m = 12 THEN 1 ELSE m + 1

\* The clock passes into the next month.
Tick ==
    /\ ticks < MaxTicks
    /\ now_month' = NextMonth(now_month)
    /\ ticks' = ticks + 1
    /\ UNCHANGED <<callVars, cfgVars, appVars, thrVars, sent_alerts, passVars, lockHist, notifHist>>

\* _refresh_in_background: start a daemon thread running _do_refresh
StartThread(t) ==
    /\ pc[t] = "unborn"
    /\ \A u \in Threads : u < t => pc[u] # "unborn"
    /\ pc' = [pc EXCEPT ![t] = "spawned"]

\* _auto_refresh: the timer callback
AutoRefresh ==
    /\ \E t \in Threads : StartThread(t)
    /\ UNCHANGED <<callVars, cfgVars, clockVars, appVars, idx, current_month, sent_alerts,
                   passVars, lockHist, notifHist>>

\* _on_refresh_click: the manual refresh
OnRefreshClick ==
    /\ \E t \in Threads : StartThread(t)
    /\ title' = <<"AI Budget (refreshing)">>
    /\ UNCHANGED <<callVars, cfgVars, clockVars, last_month, usage_data, refresh_lock, ui_pending,
                   idx, current_month, sent_alerts, passVars, lockHist, notifHist>>

\* The history of a pass is kept from its start to the release of the lock.
ForgetPass ==
    /\ pass_pre' = <<>>
    /\ fetches' = [p \in ProviderIds |-> 0]
    /\ outcome' = [p \in ProviderIds |-> "none"]
    /\ ret' = <<>>
    /\ rolled' = FALSE
    /\ pass_delivered' = {}

\* As TryAcquire, but with a blocking acquire: the thread waits for the lock.
TryAcquireBlocking(t) ==
    /\ pc[t] = "spawned"
    /\ IF refresh_lock = 0
       THEN /\ refresh_lock' = t
            /\ pc' = [pc EXCEPT ![t] = "refresh"]
            /\ started' = [started EXCEPT ![t] = TRUE]
            /\ pass_no' = pass_no + 1
            /\ pass_pre' = usage_data
            /\ UNCHANGED <<fetches, outcome, ret, rolled, pass_delivered, sawHeld>>
       ELSE /\ sawHeld' = [sawHeld EXCEPT ![t] = TRUE]
            /\ UNCHANGED <<pc, refresh_lock, started, passVars>>
    /\ UNCHANGED <<callVars, cfgVars, clockVars, last_month, usage_data, title, ui_pending,
                   idx, current_month, sent_alerts, notifHist>>

\* _do_refresh: "if not self._refresh_lock.acquire(blocking=False): return"
TryAcquire(t) ==
    /\ pc[t] = "spawned"
    /\ IF refresh_lock = 0
       THEN /\ refresh_lock' = t
            /\ pc' = [pc EXCEPT ![t] = "refresh"]
            /\ started' = [started EXCEPT ![t] = TRUE]
            /\ pass_no' = pass_no + 1
            /\ pass_pre' = usage_data
            /\ UNCHANGED <<fetches, outcome, ret, rolled, pass_delivered, sawHeld>>
       ELSE /\ pc' = [pc EXCEPT ![t] = "skipped"]
            /\ sawHeld' = [sawHeld EXCEPT ![t] = TRUE]
            /\ UNCHANGED <<refresh_lock, started, passVars>>
    /\ UNCHANGED <<callVars, cfgVars, clockVars, last_month, usage_data, title, ui_pending,
                   idx, current_month, sent_alerts, notifHist>>

\* As MonthRollover, but never taking the rollover branch.
MonthRolloverSkipped(month, last, cache, sent) ==
    [last_month |-> last, usage_data |-> cache, sent |-> sent, reset |-> FALSE]

\* _refresh_data, "Check for month rollover": the new _last_month, cache and
\* _sent_alerts for the month read from the clock
MonthRollover(month, last, cache, sent) ==
    IF month # last
    THEN [last_month |-> month, usage_data |-> <<>>, sent |-> reset_alerts(sent), reset |-> TRUE]
    ELSE [last_month |-> last, usage_data |-> cache, sent |-> sent, reset |-> FALSE]

RolloverCheck(t) ==
    /\ pc[t] = "refresh"
    /\ LET r == MonthRollover(now_month, last_month, usage_data, sent_alerts)
       IN /\ current_month' = [current_month EXCEPT ![t] = now_month]
          /\ last_month' = r.last_month
          /\ usage_data' = r.usage_data
          /\ sent_alerts' = r.sent
          /\ rolled' = (now_month # last_month)
          /\ IF r.reset THEN NoteReset ELSE UNCHANGED notifHist
    /\ pc' = [pc EXCEPT ![t] = "loop"]
    /\ idx' = [idx EXCEPT ![t] = 1]
    /\ UNCHANGED <<callVars, cfgVars, clockVars, refresh_lock, title, ui_pending,
                   pass_no, pass_pre, fetches, outcome, ret, pass_delivered, lockHist>>

InLoop(t) == pc[t] = "loop" /\ idx[t] <= Len(Providers)

\* "if not app_config.is_provider_enabled(self.cfg, pid): continue"
SkipDisabled(t) ==
    /\ InLoop(t)
    /\ ~is_provider_enabled(enabled, Providers[idx[t]])
    /\ idx' = [idx EXCEPT ![t] = @ + 1]
    /\ UNCHANGED <<callVars, cfgVars, clockVars, appVars, pc, current_month, sent_alerts,
                   passVars, lockHist, notifHist>>

\* provider.fetch_usage raises: "except Exception ... continue"
FetchRaises(t) ==
    /\ InLoop(t)
    /\ is_provider_enabled(enabled, Providers[idx[t]])
    /\ fetches' = [fetches EXCEPT ![Providers[idx[t]]] = @ + 1]
    /\ outcome' = [outcome EXCEPT ![Providers[idx[t]]] = "raised"]
    /\ idx' = [idx EXCEPT ![t] = @ + 1]
    /\ UNCHANGED <<callVars, cfgVars, clockVars, appVars, pc, current_month, sent_alerts,
                   pass_no, pass_pre, ret, rolled, pass_delivered, lockHist, notifHist>>

\* self.usage_data[pid] = usage
CacheWrite(cache, pid, usage) ==
    [q \in DOMAIN cache \cup {pid} |-> IF q = pid THEN usage ELSE cache[q]]

\* provider.fetch_usage returns a UsageData. The loop body then reads
\* usage.error (main.py:254), outside the try block: when UsageData has no such
\* attribute the AttributeError leaves _refresh_data, and _do_refresh goes to
\* its except and finally clauses.
FetchReturns(t) ==
    /\ InLoop(t)
    /\ is_provider_enabled(enabled, Providers[idx[t]])
    /\ \E spend \in Spends :
         LET pid == Providers[idx[t]]
             usage == UsageData(pid, spend, get_provider_budget(pid), pass_no)
         IN /\ fetches' = [fetches EXCEPT ![pid] = @ + 1]
            /\ outcome' = [outcome EXCEPT ![pid] = "returned"]
            /\ ret' = CacheWrite(ret, pid, usage)
            /\ IF HasAttr("error")
               THEN \E outs \in OutcomeChoices(pid, usage_percent(usage),
                                                 alertThresholds, sent_alerts) :
                    \E res \in {check_and_notify(pid, usage_percent(usage),
                                                  alertThresholds, outs, sent_alerts)} :
                         /\ usage_data' = CacheWrite(usage_data, pid, usage)
                         /\ sent_alerts' = res.sent
                         /\ pass_delivered' = pass_delivered \cup (res.sent \ sent_alerts)
                         /\ NoteCall(pid, usage_percent(usage), res)
                         /\ idx' = [idx EXCEPT ![t] = @ + 1]
                         /\ UNCHANGED <<pc, current_month>>
               ELSE /\ pc' = [pc EXCEPT ![t] = "finally"]
                    /\ idx' = [idx EXCEPT ![t] = 1]
                    /\ current_month' = [current_month EXCEPT ![t] = 0]
                    /\ UNCHANGED <<usage_data, sent_alerts, pass_delivered, notifHist>>
    /\ UNCHANGED <<callVars, cfgVars, clockVars, last_month, refresh_lock, title, ui_pending,
                   pass_no, pass_pre, rolled, lockHist>>

\* The for loop is exhausted: _refresh_data returns.
LoopExit(t) ==
    /\ pc[t] = "loop"
    /\ idx[t] > Len(Providers)
    /\ pc' = [pc EXCEPT ![t] = "finally"]
    /\ idx' = [idx EXCEPT ![t] = 1]
    /\ current_month' = [current_month EXCEPT ![t] = 0]
    /\ UNCHANGED <<callVars, cfgVars, clockVars, appVars, sent_alerts, passVars, lockHist,
                   notifHist>>

\* finally: self._refresh_lock.release()
Release(t) ==
    /\ pc[t] = "finally"
    /\ refresh_lock' = 0
    /\ pc' = [pc EXCEPT ![t] = "schedule"]
    /\ ForgetPass
    /\ UNCHANGED <<callVars, cfgVars, clockVars, last_month, usage_data, title, ui_pending,
                   idx, current_month, sent_alerts, pass_no, lockHist, notifHist>>

\* finally: self._schedule_ui_update(), AppHelper.callAfter(self._do_ui_update)
ScheduleUi(t) ==
    /\ pc[t] = "schedule"
    /\ ui_pending' = ui_pending + 1
    /\ pc' = [pc EXCEPT ![t] = "done"]
    /\ UNCHANGED <<callVars, cfgVars, clockVars, last_month, usage_data, refresh_lock, title,
                   idx, current_month, sent_alerts, passVars, lockHist, notifHist>>

\* _do_ui_update on the main thread: _update_title and _build_menu
DoUiUpdate ==
    /\ ui_pending > 0
    /\ ui_pending' = ui_pending - 1
    /\ title' = update_title(enabled, usage_data)
    /\ UNCHANGED <<callVars, cfgVars, clockVars, last_month, usage_data, refresh_lock,
                   thrVars, sent_alerts, passVars, lockHist, notifHist>>

\* The months the application is started in.
StartMonths == {12}

NoHistory ==
    /\ last_call = NoEvent
    /\ delivered_ok = {}
    /\ ex_stage = 0

\* No library function is being called on its own.
NoArg == [fn |-> "none"]
NoOut == [kind |-> "none"]

\* No paginated fetch and no concurrent notifier call is under way.
NoPager == [pc |-> "idle"]
NoCallers == <<>>
NoDeliveries == <<>>

Quiet ==
    /\ pager = NoPager
    /\ callers = NoCallers
    /\ deliveries = NoDeliveries

NoCall ==
    /\ arg = NoArg
    /\ out = NoOut
    /\ Quiet

NoPass ==
    /\ pass_no = 0
    /\ pass_pre = <<>>
    /\ fetches = [p \in ProviderIds |-> 0]
    /\ outcome = [p \in ProviderIds |-> "none"]
    /\ ret = <<>>
    /\ rolled = FALSE
    /\ pass_delivered = {}
    /\ sawHeld = [t \in Threads |-> FALSE]
    /\ started = [t \in Threads |-> FALSE]

\* The state __init__ leaves: the cache empty, the lock free, the timer
\* running and the initial background refresh started (thread 1).
Init ==
    /\ enabled \in EnabledChoices
    /\ alertThresholds = DefaultThresholds
    /\ now_month \in StartMonths
    /\ ticks = 0
    /\ last_month = now_month
    /\ usage_data = <<>>
    /\ refresh_lock = 0
    /\ title = <<"AI Budget">>
    /\ ui_pending = 0
    /\ pc = [t \in Threads |-> IF t = 1 THEN "spawned" ELSE "unborn"]
    /\ idx = [t \in Threads |-> 1]
    /\ current_month = [t \in Threads |-> 0]
    /\ sent_alerts = {}
    /\ NoPass
    /\ watched = Providers[1]
    /\ NoHistory
    /\ NoCall

Next ==
    \/ Tick
    \/ AutoRefresh
    \/ OnRefreshClick
    \/ DoUiUpdate
    \/ \E t \in Threads :
        \/ TryAcquire(t)
        \/ RolloverCheck(t)
        \/ SkipDisabled(t)
        \/ FetchRaises(t)
        \/ FetchReturns(t)
        \/ LoopExit(t)
        \/ Release(t)
        \/ ScheduleUi(t)

Spec == Init /\ [][Next]_vars

-----------------------------------------------------------------------------
(* The notifier module on its own: check_and_notify and reset_alerts called  *)
(* in any order, with any of the usage values, as test_notifier.py does.     *)

\* The provider ids the calls are made for.
NotifierProviders == {"anthropic", "openai"}

NotifierCheck ==
    /\ \E pid \in NotifierProviders, percent \in Usages :
       \E outs \in OutcomeChoices(pid, percent, alertThresholds, sent_alerts) :
       \E res \in {check_and_notify(pid, percent, alertThresholds, outs, sent_alerts)} :
            /\ sent_alerts' = res.sent
            /\ NoteCall(pid, percent, res)
    /\ UNCHANGED <<callVars, cfgVars, clockVars, appVars, thrVars, passVars, lockHist>>

NotifierReset ==
    /\ sent_alerts' = reset_alerts(sent_alerts)
    /\ NoteReset
    /\ UNCHANGED <<callVars, cfgVars, clockVars, appVars, thrVars, passVars, lockHist>>

NotifierInit ==
    /\ enabled = ProviderIds
    /\ alertThresholds \in ThresholdChoices
    /\ now_month \in StartMonths
    /\ ticks = 0
    /\ last_month = now_month
    /\ usage_data = <<>>
    /\ refresh_lock = 0
    /\ title = <<"AI Budget">>
    /\ ui_pending = 0
    /\ pc = [t \in Threads |-> "unborn"]
    /\ idx = [t \in Threads |-> 1]
    /\ current_month = [t \in Threads |-> 0]
    /\ sent_alerts = {}
    /\ NoPass
    /\ watched \in NotifierProviders
    /\ NoHistory
    /\ NoCall

NotifierNext == NotifierCheck \/ NotifierReset

NotifierSpec == NotifierInit /\ [][NotifierNext]_vars

-----------------------------------------------------------------------------
(* A library function called on its own: the application is idle, the        *)
(* arguments are drawn in the initial state and the call is the only step.   *)

AppIdle ==
    /\ enabled = ProviderIds
    /\ alertThresholds = DefaultThresholds
    /\ now_month \in StartMonths
    /\ ticks = 0
    /\ last_month = now_month
    /\ usage_data = <<>>
    /\ refresh_lock = 0
    /\ title = <<"AI Budget">>
    /\ ui_pending = 0
    /\ pc = [t \in Threads |-> "unborn"]
    /\ idx = [t \in Threads |-> 1]
    /\ current_month = [t \in Threads |-> 0]
    /\ sent_alerts = {}
    /\ NoPass
    /\ watched = Providers[1]
    /\ NoHistory
    /\ Quiet

\* The call returns or raises: res is its result.
Finish(res) ==
    /\ out = NoOut
    /\ out' = res
    /\ UNCHANGED <<arg, loopVars, cfgVars, clockVars, appVars, thrVars, sent_alerts,
                   passVars, lockHist, notifHist>>

\* Python's None.
None == "None"

Returned(u) == [kind |-> "returned", usage |-> u]
Raised(e) == [kind |-> "raised", exc |-> e]

-----------------------------------------------------------------------------
(* providers/*.py: fetch_usage *)

\* UsageData(**kwargs): the dataclass's generated __init__ accepts its fields
\* only; any other keyword raises TypeError. Fields left out take their
\* defaults (last_updated, the time of construction, is left out here).
UsageDataDefaults ==
    [provider_id |-> "", provider_name |-> "", current_spend |-> 0,
     monthly_budget |-> 0, tokens_in |-> 0, tokens_out |-> 0]

MakeUsageData(kwargs) ==
    IF DOMAIN kwargs \subseteq UsageDataFields
    THEN Returned([f \in DOMAIN UsageDataDefaults |->
                    IF f \in DOMAIN kwargs THEN kwargs[f] ELSE UsageDataDefaults[f]])
    ELSE Raised("TypeError")

\* As ZeroState, and raising: "no data" reported as an error.
ZeroStateRaises(pid, name, budget) == Raised("ValueError")

\* The zero-state snapshot: only the provider and the budget are passed.
ZeroState(pid, name, budget) ==
    MakeUsageData([provider_id |-> pid, provider_name |-> name, monthly_budget |-> budget])

\* "if not api_key": None and "" are falsy.
Truthy(str) == str # None /\ str # ""

\* ":" in api_key, and api_key.split(":", 1)
RECURSIVE Find(_, _, _)
Find(str, c, i) ==
    IF i > Len(str) THEN 0
    ELSE IF SubSeq(str, i, i) = c THEN i
    ELSE Find(str, c, i + 1)

Contains(str, c) == Find(str, c, 1) > 0

Split1(str, c) ==
    <<SubSeq(str, 1, Find(str, c, 1) - 1), SubSeq(str, Find(str, c, 1) + 1, Len(str))>>

\* self._manual_spend: <<>> for None, <<x>> for the amount x
NoManual == <<>>

\* AnthropicProvider.fetch_usage. c.cost and c.usage are the outcomes of
\* _call_cost_api and _call_usage_api.
Anthropic_fetch_usage(c) ==
    IF ~Truthy(c.api_key) THEN ZeroState("anthropic", "Anthropic", c.budget)
    ELSE IF c.cost.ok
    THEN MakeUsageData([provider_id |-> "anthropic", provider_name |-> "Anthropic",
                        current_spend |-> c.cost.spend, monthly_budget |-> c.budget,
                        tokens_in  |-> IF c.usage.ok THEN c.usage.tokens_in ELSE 0,
                        tokens_out |-> IF c.usage.ok THEN c.usage.tokens_out ELSE 0])
    ELSE \* except Exception: log and return the zero-state
         ZeroState("anthropic", "Anthropic", c.budget)

\* OpenAIProvider.fetch_usage. c.tracker is self._tracker, c.manual_spend is
\* self._manual_spend, c.cost the outcome of _call_costs_api.
OpenAI_after_tracker(c) ==
    IF Truthy(c.api_key) /\ c.cost.ok
    THEN MakeUsageData([provider_id |-> "openai", provider_name |-> "OpenAI",
                        current_spend |-> c.cost.spend, monthly_budget |-> c.budget,
                        tokens_in |-> c.cost.tokens_in, tokens_out |-> c.cost.tokens_out])
    ELSE IF c.manual_spend # NoManual
    THEN MakeUsageData([provider_id |-> "openai", provider_name |-> "OpenAI",
                        current_spend |-> c.manual_spend[1], monthly_budget |-> c.budget,
                        error |-> "manual"])
    ELSE ZeroState("openai", "OpenAI", c.budget)

OpenAI_fetch_usage(c) ==
    IF c.tracker.kind = "none" THEN OpenAI_after_tracker(c)
    ELSE IF c.tracker.raises THEN Raised(c.tracker.exc)
    ELSE IF "requests" \notin DOMAIN c.tracker.totals THEN Raised("KeyError")
    ELSE IF c.tracker.totals.requests > 0
    THEN MakeUsageData([provider_id |-> "openai", provider_name |-> "OpenAI",
                        current_spend |-> c.tracker.totals.spend,
                        monthly_budget |-> c.budget,
                        tokens_in |-> c.tracker.totals.tokens_in,
                        tokens_out |-> c.tracker.totals.tokens_out,
                        requests |-> c.tracker.totals.requests])
    ELSE OpenAI_after_tracker(c)

\* GoogleProvider.fetch_usage
Google_fetch_usage(c) ==
    IF c.tracker.kind = "none" THEN ZeroState("google", "Google", c.budget)
    ELSE IF ~c.tracker.raises
    THEN MakeUsageData([provider_id |-> "google", provider_name |-> "Google",
                        current_spend |-> c.tracker.totals.spend,
                        monthly_budget |-> c.budget,
                        tokens_in |-> c.tracker.totals.tokens_in,
                        tokens_out |-> c.tracker.totals.tokens_out])
    ELSE \* except Exception: log and return the zero-state
         ZeroState("google", "Google", c.budget)

\* XAIProvider._resolve_credentials: <<team_id, management key>>
resolve_credentials(team_id, api_key) ==
    IF Truthy(team_id)
    THEN <<team_id, IF Contains(api_key, ":") THEN Split1(api_key, ":")[2] ELSE api_key>>
    ELSE IF Contains(api_key, ":") THEN Split1(api_key, ":")
    ELSE <<"", "">>

\* The billing tier of XAIProvider.fetch_usage: "ok", "failed" (the call
\* raised), "no_team" (billing_error is a str) or "skipped" (no key).
xai_billing(c) ==
    IF ~Truthy(c.api_key) THEN "skipped"
    ELSE LET cred == resolve_credentials(c.team_id, c.api_key)
         IN IF Truthy(cred[1]) /\ Truthy(cred[2])
            THEN IF c.cost.ok THEN "ok" ELSE "failed"
            ELSE "no_team"

\* The error text the tracker tier passes to UsageData.
xai_error_msg(c) ==
    CASE xai_billing(c) = "failed"  -> "Billing API failed: " \o c.cost.exc
      [] xai_billing(c) = "no_team" -> "no team_id configured, using local tracking"
      [] OTHER -> None

\* XAIProvider.fetch_usage
XAI_fetch_usage(c) ==
    IF xai_billing(c) = "ok"
    THEN MakeUsageData([provider_id |-> "xai", provider_name |-> "xAI",
                        current_spend |-> c.cost.spend, monthly_budget |-> c.budget,
                        tokens_in |-> c.cost.tokens_in, tokens_out |-> c.cost.tokens_out])
    ELSE IF c.tracker.kind # "none"
    THEN IF c.tracker.raises THEN Raised(c.tracker.exc)
         ELSE MakeUsageData([provider_id |-> "xai", provider_name |-> "xAI",
                             current_spend |-> c.tracker.totals.spend,
                             monthly_budget |-> c.budget,
                             tokens_in |-> c.tracker.totals.tokens_in,
                             tokens_out |-> c.tracker.totals.tokens_out,
                             error |-> xai_error_msg(c)])
    ELSE IF xai_billing(c) = "failed" THEN Raised(c.cost.exc)
    ELSE ZeroState("xai", "xAI", c.budget)

\* ---- the arguments and environments the calls are drawn from

\* keychain.get_api_key: None, a plain key, or the legacy "team_id:key" form
ApiKeys == {None, "sk-1", "team-1:sk-1"}

\* config xaiTeamId
TeamIds == {"", "team-7"}

Budgets == {30, 80}

\* Outcomes of a remote call: a parsed result, or the exception raised by
\* requests (transport error) or by raise_for_status (non-2xx response).
CostOutcomes ==
    {[ok |-> TRUE, spend |-> 12, tokens_in |-> 0, tokens_out |-> 0],
     [ok |-> FALSE, exc |-> "ConnectionError"],
     [ok |-> FALSE, exc |-> "HTTPError"]}

TokenOutcomes ==
    {[ok |-> TRUE, tokens_in |-> 1000, tokens_out |-> 200],
     [ok |-> FALSE, exc |-> "HTTPError"]}

\* self._tracker: None, a LocalTracker (totals without "requests"), a
\* JsonlTracker (totals with "requests"), or one whose get_monthly_usage raises.
NoTracker == [kind |-> "none"]

Trackers ==
    {NoTracker,
     [kind |-> "local", raises |-> FALSE,
      totals |-> [spend |-> 3, tokens_in |-> 10, tokens_out |-> 5]],
     [kind |-> "jsonl", raises |-> FALSE,
      totals |-> [spend |-> 3, tokens_in |-> 10, tokens_out |-> 5, requests |-> 2]],
     [kind |-> "jsonl", raises |-> FALSE,
      totals |-> [spend |-> 0, tokens_in |-> 0, tokens_out |-> 0, requests |-> 0]],
     [kind |-> "local", raises |-> TRUE, exc |-> "OverflowError"]}

ManualSpends == {NoManual, <<5>>}

FetchArgs ==
    {[fn |-> "anthropic", api_key |-> k, budget |-> b, cost |-> c, usage |-> u] :
        k \in ApiKeys, b \in Budgets, c \in CostOutcomes, u \in TokenOutcomes}
    \cup
    {[fn |-> "openai", api_key |-> k, budget |-> b, cost |-> c, tracker |-> tr,
      manual_spend |-> m] :
        k \in ApiKeys, b \in Budgets, c \in CostOutcomes, tr \in Trackers,
        m \in ManualSpends}
    \cup
    {[fn |-> "google", api_key |-> k, budget |-> b, tracker |-> tr] :
        k \in ApiKeys, b \in Budgets, tr \in Trackers}
    \cup
    {[fn |-> "xai", api_key |-> k, budget |-> b, cost |-> c, tracker |-> tr,
      team_id |-> t] :
        k \in ApiKeys, b \in Budgets, c \in CostOutcomes, tr \in Trackers,
        t \in TeamIds}

FetchAnthropic == arg.fn = "anthropic" /\ Finish(Anthropic_fetch_usage(arg))
FetchOpenAI    == arg.fn = "openai" /\ Finish(OpenAI_fetch_usage(arg))
FetchGoogle    == arg.fn = "google" /\ Finish(Google_fetch_usage(arg))
FetchXAI       == arg.fn = "xai" /\ Finish(XAI_fetch_usage(arg))

ProviderInit ==
    /\ AppIdle
    /\ arg \in FetchArgs
    /\ out = NoOut

ProviderNext == FetchAnthropic \/ FetchOpenAI \/ FetchGoogle \/ FetchXAI

ProviderSpec == ProviderInit /\ [][ProviderNext]_vars

-----------------------------------------------------------------------------
(* main.py: _get_totals called on any configuration and cache *)

\* The caches: for any set of providers, a snapshot each.
Caches ==
    UNION {[D -> Spends] : D \in SUBSET ProviderIds}

CacheOf(spends) ==
    [p \in DOMAIN spends |-> UsageData(p, spends[p], get_provider_budget(p), 0)]

TotalsArgs ==
    {[fn |-> "get_totals", enabled |-> E, cache |-> CacheOf(sp)] :
        E \in SUBSET ProviderIds, sp \in Caches}

GetTotals ==
    /\ arg.fn = "get_totals"
    /\ Finish([kind |-> "returned", totals |-> get_totals(arg.enabled, arg.cache)])

TotalsInit ==
    /\ AppIdle
    /\ arg \in TotalsArgs
    /\ out = NoOut

TotalsNext == GetTotals

TotalsSpec == TotalsInit /\ [][TotalsNext]_vars

-----------------------------------------------------------------------------
(* jsonl_tracker.py, tracker.py: PRICING and _get_pricing *)

\* The PRICING dicts, in insertion order (the order a dict is iterated in):
\* <<model key, prices>>, the prices in cents per 1M tokens.
JsonlPricing ==
    <<
        <<"claude-opus-4-6", [input |-> 1500, output |-> 7500]>>,
        <<"claude-opus-4", [input |-> 1500, output |-> 7500]>>,
        <<"claude-sonnet-4", [input |-> 300, output |-> 1500]>>,
        <<"claude-sonnet-4-5", [input |-> 300, output |-> 1500]>>,
        <<"claude-haiku-3.5", [input |-> 80, output |-> 400]>>,
        <<"claude-haiku-3-5", [input |-> 80, output |-> 400]>>,
        <<"gpt-4o", [input |-> 250, output |-> 1000]>>,
        <<"gpt-4o-mini", [input |-> 15, output |-> 60]>>,
        <<"gpt-4.1", [input |-> 200, output |-> 800]>>,
        <<"gpt-4.1-mini", [input |-> 40, output |-> 160]>>,
        <<"gpt-4.1-nano", [input |-> 10, output |-> 40]>>,
        <<"o1", [input |-> 1500, output |-> 6000]>>,
        <<"o3", [input |-> 1000, output |-> 4000]>>,
        <<"o3-mini", [input |-> 110, output |-> 440]>>,
        <<"o4-mini", [input |-> 110, output |-> 440]>>,
        <<"gpt-5.2-pro", [input |-> 1000, output |-> 4000]>>,
        <<"gemini-2.5-pro", [input |-> 125, output |-> 1000]>>,
        <<"gemini-2.5-flash", [input |-> 15, output |-> 60]>>,
        <<"gemini-2.0-flash", [input |-> 10, output |-> 40]>>,
        <<"gemini-3-pro", [input |-> 125, output |-> 1000]>>,
        <<"gemini-1.5-pro", [input |-> 125, output |-> 500]>>,
        <<"grok-3", [input |-> 300, output |-> 1500]>>,
        <<"grok-3-mini", [input |-> 30, output |-> 50]>>,
        <<"grok-4", [input |-> 300, output |-> 1500]>>
    >>

TrackerPricing ==
    <<
        <<"claude-opus-4", [input |-> 1500, output |-> 7500]>>,
        <<"claude-sonnet-4", [input |-> 300, output |-> 1500]>>,
        <<"claude-haiku-3.5", [input |-> 80, output |-> 400]>>,
        <<"gpt-4o", [input |-> 250, output |-> 1000]>>,
        <<"gpt-4o-mini", [input |-> 15, output |-> 60]>>,
        <<"o1", [input |-> 1500, output |-> 6000]>>,
        <<"o3-mini", [input |-> 110, output |-> 440]>>,
        <<"gemini-2.5-pro", [input |-> 125, output |-> 1000]>>,
        <<"gemini-2.0-flash", [input |-> 10, output |-> 40]>>,
        <<"gemini-1.5-pro", [input |-> 125, output |-> 500]>>,
        <<"grok-3", [input |-> 300, output |-> 1500]>>,
        <<"grok-3-mini", [input |-> 30, output |-> 50]>>
    >>

PricingKeys(table) == {table[i][1] : i \in 1..Len(table)}

\* str.lower(), on ASCII letters
UpperCase == "ABCDEFGHIJKLMNOPQRSTUVWXYZ"
LowerCase == "abcdefghijklmnopqrstuvwxyz"

LowerChar(c) ==
    IF Contains(UpperCase, c)
    THEN SubSeq(LowerCase, Find(UpperCase, c, 1), Find(UpperCase, c, 1))
    ELSE c

RECURSIVE Lower(_)
Lower(str) ==
    IF str = "" THEN ""
    ELSE LowerChar(SubSeq(str, 1, 1)) \o Lower(SubSeq(str, 2, Len(str)))

\* str.startswith(prefix)
StartsWith(str, prefix) ==
    Len(prefix) <= Len(str) /\ SubSeq(str, 1, Len(prefix)) = prefix

NoPricing == [found |-> FALSE]

Pricing(prices) == [found |-> TRUE, input |-> prices.input, output |-> prices.output]

\* "for known_model, prices in PRICING.items(): if startswith: return prices"
RECURSIVE FirstPrefix(_, _, _)
FirstPrefix(table, model_lower, i) ==
    IF i > Len(table) THEN NoPricing
    ELSE IF StartsWith(model_lower, table[i][1]) THEN Pricing(table[i][2])
    ELSE FirstPrefix(table, model_lower, i + 1)

\* _get_pricing: the exact key if registered, else the first registered key
\* that is a prefix of the lower-cased name, else None
get_pricing(table, model) ==
    LET model_lower == Lower(model)
        exact == {i \in 1..Len(table) : table[i][1] = model_lower}
    IN IF exact # {} THEN Pricing(table[CHOOSE i \in exact : TRUE][2])
       ELSE FirstPrefix(table, model_lower, 1)

\* Model names: the registered keys, dated versions of them, and some others.
ModelNames(table) ==
    PricingKeys(table)
    \cup {k \o "-2025" : k \in PricingKeys(table)}
    \cup {"GPT-4.1-Mini-2025", "GPT-4o", "o3-mini-high", "unknown-model-xyz", ""}

PricingArgs ==
    {[fn |-> "jsonl_tracker._get_pricing", model |-> m] : m \in ModelNames(JsonlPricing)}
    \cup
    {[fn |-> "tracker._get_pricing", model |-> m] : m \in ModelNames(TrackerPricing)}

JsonlGetPricing ==
    /\ arg.fn = "jsonl_tracker._get_pricing"
    /\ Finish([kind |-> "returned", value |-> get_pricing(JsonlPricing, arg.model)])

TrackerGetPricing ==
    /\ arg.fn = "tracker._get_pricing"
    /\ Finish([kind |-> "returned", value |-> get_pricing(TrackerPricing, arg.model)])

PricingInit ==
    /\ AppIdle
    /\ arg \in PricingArgs
    /\ out = NoOut

PricingNext == JsonlGetPricing \/ TrackerGetPricing

PricingSpec == PricingInit /\ [][PricingNext]_vars

-----------------------------------------------------------------------------
(* Values read from the log files (json.loads), tagged with their type *)

Null == [t |-> "null"]                        \* JSON null, Python None
Whole(n) == [t |-> "int", v |-> n]
Flt(n) == [t |-> "float", v |-> n]            \* a float with the whole value n
Inf == [t |-> "inf"]                          \* the float Infinity
Str(x) == [t |-> "str", s |-> x]
List == [t |-> "list"]                        \* a non-empty JSON array
Dict(d) == [t |-> "dict", d |-> d]
Money(cents) == [t |-> "money", cents |-> cents]   \* a number of dollars, held in cents

\* A str holding an ISO-8601 timestamp: the date and hour as written and the
\* UTC offset in hours ("Z" and "+00:00" are offset 0; naive: no offset given).
Iso(y, m, d, h, off, naive) ==
    [t |-> "iso", year |-> y, month |-> m, day |-> d, hour |-> h, off |-> off,
     naive |-> naive]

\* A number holding epoch seconds of an instant in the UTC month y-m.
Epoch(y, m) == [t |-> "epoch", year |-> y, month |-> m]

\* dict.get(key, default)
Get(d, key, default) == IF key \in DOMAIN d THEN d[key] ELSE default

IsNumber(v) == v.t \in {"int", "float"}

\* Python truthiness of a value
Falsy(v) ==
    \/ v.t = "null"
    \/ v.t = "str" /\ v.s = ""
    \/ IsNumber(v) /\ v.v = 0
    \/ v.t = "money" /\ v.cents = 0
    \/ v.t = "dict" /\ DOMAIN v.d = {}

Digits == "0123456789"

IsDigits(str) ==
    Len(str) > 0 /\ \A i \in 1..Len(str) : Contains(Digits, SubSeq(str, i, i))

\* int(str), float(str) of a JSON string: a decimal integer with an optional
\* sign parses; anything else in the samples raises ValueError.
IsInteger(str) ==
    IF Len(str) > 1 /\ SubSeq(str, 1, 1) = "-" THEN IsDigits(SubSeq(str, 2, Len(str)))
    ELSE IsDigits(str)

RECURSIVE ParseInt(_)
ParseInt(str) ==
    IF str = "" THEN 0
    ELSE ParseInt(SubSeq(str, 1, Len(str) - 1)) * 10
            + (Find(Digits, SubSeq(str, Len(str), Len(str)), 1) - 1)

ToInt(str) ==
    IF SubSeq(str, 1, 1) = "-" THEN 0 - ParseInt(SubSeq(str, 2, Len(str)))
    ELSE ParseInt(str)

-----------------------------------------------------------------------------
(* Time stamps *)

\* datetime.now(timezone.utc) at the call: year and month
NowUtc == [year |-> 2026, month |-> 2]

DaysIn(y, m) ==
    IF m = 2 THEN (IF y % 4 = 0 /\ (y % 100 # 0 \/ y % 400 = 0) THEN 29 ELSE 28)
    ELSE IF m \in {4, 6, 9, 11} THEN 30 ELSE 31

\* The UTC year and month of the instant an ISO timestamp denotes (a naive
\* timestamp taken as UTC).
UtcMonthOf(ts) ==
    LET h == IF ts.naive THEN ts.hour ELSE ts.hour - ts.off
    IN IF h < 0 /\ ts.day = 1
       THEN (IF ts.month = 1 THEN [year |-> ts.year - 1, month |-> 12]
             ELSE [year |-> ts.year, month |-> ts.month - 1])
       ELSE IF h >= 24 /\ ts.day = DaysIn(ts.year, ts.month)
       THEN (IF ts.month = 12 THEN [year |-> ts.year + 1, month |-> 1]
             ELSE [year |-> ts.year, month |-> ts.month + 1])
       ELSE [year |-> ts.year, month |-> ts.month]

\* datetime.fromisoformat(s.replace("Z", "+00:00")): the fields as written;
\* .year and .month are those of the local date, whatever the offset.
fromisoformat(ts) == [year |-> ts.year, month |-> ts.month]

\* datetime.fromtimestamp(x, tz=timezone.utc)
fromtimestamp(ts) == [year |-> ts.year, month |-> ts.month]

-----------------------------------------------------------------------------
(* tracker.py: LocalTracker *)

\* MODEL_PROVIDER_MAP, in insertion order
ModelProviderMap ==
    <<<<"claude", "anthropic">>, <<"gpt", "openai">>, <<"o1", "openai">>,
      <<"o3", "openai">>, <<"gemini", "google">>, <<"grok", "xai">>>>

RECURSIVE ProviderFor(_, _)
ProviderFor(model_lower, i) ==
    IF i > Len(ModelProviderMap) THEN Null
    ELSE IF StartsWith(model_lower, ModelProviderMap[i][1])
    THEN Str(ModelProviderMap[i][2])
    ELSE ProviderFor(model_lower, i + 1)

\* _get_provider_for_model
get_provider_for_model(model) == ProviderFor(Lower(model), 1)

Ok(x) == [ok |-> TRUE, v |-> x]
Fails(e) == [ok |-> FALSE, exc |-> e]

\* _safe_int(value): int(value), the default 0 for None and on TypeError or
\* ValueError; int(float('inf')) raises OverflowError, which is not caught.
safe_int(value) ==
    CASE value.t = "null" -> Ok(0)
      [] value.t \in {"int", "float"} -> Ok(value.v)
      [] value.t = "str" -> Ok(IF IsInteger(value.s) THEN ToInt(value.s) ELSE 0)
      [] value.t = "inf" -> Fails("OverflowError")
      [] OTHER -> Ok(0)

\* _safe_float(value), in cents: float(value), 0.0 for None and on TypeError
\* or ValueError
safe_float(value) ==
    CASE value.t = "money" -> value.cents
      [] value.t \in {"int", "float"} -> value.v * 100
      [] value.t = "str" -> IF IsInteger(value.s) THEN ToInt(value.s) * 100 ELSE 0
      [] OTHER -> 0

\* Amounts are summed in micro-cents (1e-8 dollars): a price in cents per 1M
\* tokens times a token count.
MicroCents(cents) == cents * 1000000

\* tracker._calculate_cost, in micro-cents
tracker_calculate_cost(model, tokens_in, tokens_out) ==
    LET pricing == get_pricing(TrackerPricing, model)
    IN IF ~pricing.found THEN 0
       ELSE tokens_in * pricing.input + tokens_out * pricing.output

\* round(total_spend, 4): micro-cents to units of 1e-4 dollars
Round4(micro) == (micro + 5000) \div 10000

\* str(entry.get("model", "")): the samples hold a str or nothing
ModelOf(entry) == Get(entry, "model", Str("")).s

\* One pass of the loop body of LocalTracker.get_monthly_usage over an entry:
\* "skip" (continue), "count" (with the record's cost and tokens) or "raise".
Skip == [kind |-> "skip"]

local_entry(entry, provider_id, now) ==
    IF entry.t # "dict" THEN Skip
    ELSE LET e == entry.d
             entry_time == Get(e, "timestamp", Null)
         IN IF entry_time.t \notin {"iso", "epoch"} THEN Skip
            ELSE LET dt == IF entry_time.t = "iso" THEN fromisoformat(entry_time)
                           ELSE fromtimestamp(entry_time)
                 IN IF dt.month # now.month \/ dt.year # now.year THEN Skip
                    ELSE IF Get(e, "provider", get_provider_for_model(ModelOf(e)))
                                # Str(provider_id)
                    THEN Skip
                    ELSE LET tin  == safe_int(Get(e, "input_tokens", Get(e, "tokens_in", Whole(0))))
                             tout == safe_int(Get(e, "output_tokens", Get(e, "tokens_out", Whole(0))))
                             raw_cost == Get(e, "cost", Null)
                         IN IF ~tin.ok THEN [kind |-> "raise", exc |-> tin.exc]
                            ELSE IF ~tout.ok THEN [kind |-> "raise", exc |-> tout.exc]
                            ELSE [kind |-> "count",
                                  cost |-> IF raw_cost.t # "null"
                                           THEN MicroCents(safe_float(raw_cost))
                                           ELSE tracker_calculate_cost(ModelOf(e), tin.v, tout.v),
                                  tokens_in |-> tin.v,
                                  tokens_out |-> tout.v,
                                  requests |-> 1]

ZeroTotals == [spend |-> 0, tokens_in |-> 0, tokens_out |-> 0, requests |-> 0]

AddTo(acc, r) ==
    [spend |-> acc.spend + r.cost, tokens_in |-> acc.tokens_in + r.tokens_in,
     tokens_out |-> acc.tokens_out + r.tokens_out, requests |-> acc.requests + 1]

\* LocalTracker.get_monthly_usage over the entries _read_log_entries returns
RECURSIVE LocalLoop(_, _, _, _, _)
LocalLoop(entries, i, provider_id, now, acc) ==
    IF i > Len(entries)
    THEN [kind |-> "returned",
          value |-> [spend |-> Round4(acc.spend), tokens_in |-> acc.tokens_in,
                     tokens_out |-> acc.tokens_out]]
    ELSE LET r == local_entry(entries[i], provider_id, now)
         IN IF r.kind = "raise" THEN Raised(r.exc)
            ELSE LocalLoop(entries, i + 1, provider_id, now,
                           IF r.kind = "skip" THEN acc ELSE AddTo(acc, r))

Local_get_monthly_usage(provider_id, now, entries) ==
    LocalLoop(entries, 1, provider_id, now, ZeroTotals)

-----------------------------------------------------------------------------
(* jsonl_tracker.py: JsonlTracker *)

EmptyDict == Dict(<<>>)

\* The body of the loop of _parse_jsonl for one decoded line: "skip"
\* (continue), "yield" (ts, provider, model, usage) or "raise". The value of
\* json.loads is used as a dict without a check, and .replace is called on
\* whatever truthy value the timestamp holds; only ValueError and TypeError
\* are caught around fromisoformat.
parse_jsonl_line(entry) ==
    IF entry.t # "dict" THEN [kind |-> "raise", exc |-> "AttributeError"]
    ELSE LET e == entry.d
             msg == Get(e, "message", EmptyDict)
         IN IF Get(e, "type", Null) # Str("message") THEN Skip
            ELSE IF msg.t # "dict" THEN Skip
            ELSE LET usage == Get(msg.d, "usage", Null)
                     provider == Get(msg.d, "provider", Str(""))
                     model == Get(msg.d, "model", Str(""))
                     ts_str == IF ~Falsy(Get(e, "timestamp", Null)) THEN e["timestamp"]
                               ELSE IF ~Falsy(Get(e, "ts", Null)) THEN e["ts"]
                               ELSE Str("")
                 IN IF Falsy(usage) \/ usage.t # "dict" THEN Skip
                    ELSE IF Falsy(provider) \/ Falsy(ts_str) THEN Skip
                    ELSE IF ts_str.t = "iso"
                    THEN [kind |-> "yield", ts |-> fromisoformat(ts_str),
                          provider |-> provider, model |-> model.s, usage |-> usage.d]
                    ELSE IF ts_str.t = "str" THEN Skip
                    ELSE [kind |-> "raise", exc |-> "AttributeError"]

\* jsonl_tracker._calculate_cost, in micro-cents: cache reads at 10% and
\* cache writes at 125% of the input price
CACHE_READ_MULTIPLIER == [percent |-> 10]
CACHE_WRITE_MULTIPLIER == [percent |-> 125]

jsonl_calculate_cost(model, tokens_in, tokens_out, cache_read, cache_write) ==
    LET pricing == get_pricing(JsonlPricing, model)
    IN IF ~pricing.found THEN 0
       ELSE tokens_in * pricing.input + tokens_out * pricing.output
            + (cache_read * pricing.input * CACHE_READ_MULTIPLIER.percent) \div 100
            + (cache_write * pricing.input * CACHE_WRITE_MULTIPLIER.percent) \div 100

\* Arithmetic and comparison with a str, None, list or dict operand raise
\* TypeError; int and float operands do not.
Arithmetic(v) == v.t \in {"int", "float", "inf", "money"}

\* As jsonl_entry, with the cache tokens left out of tokens_in.
jsonl_entry_input_only(y, provider_id, year, month) ==
    IF y.provider # Str(provider_id) THEN Skip
    ELSE IF y.ts.year # year \/ y.ts.month # month THEN Skip
    ELSE LET tokens_in == Get(y.usage, "input", Whole(0))
             tokens_out == Get(y.usage, "output", Whole(0))
             cache_read == Get(y.usage, "cacheRead", Whole(0))
             cache_write == Get(y.usage, "cacheWrite", Whole(0))
             cost_obj == Get(y.usage, "cost", EmptyDict)
             cost_total == IF cost_obj.t = "dict" THEN Get(cost_obj.d, "total", Whole(0))
                           ELSE Whole(0)
             explicit == ~Falsy(cost_total) /\ safe_float(cost_total) > 0
         IN IF ~Falsy(cost_total) /\ ~Arithmetic(cost_total)
            THEN [kind |-> "raise", exc |-> "TypeError"]
            ELSE IF \E v \in {tokens_in, tokens_out, cache_read, cache_write} : ~Arithmetic(v)
            THEN [kind |-> "raise", exc |-> "TypeError"]
            ELSE [kind |-> "count",
                  cost |-> IF explicit THEN MicroCents(safe_float(cost_total))
                           ELSE jsonl_calculate_cost(y.model, tokens_in.v, tokens_out.v,
                                                     cache_read.v, cache_write.v),
                  tokens_in |-> tokens_in.v,
                  tokens_out |-> tokens_out.v,
                  requests |-> 1]

\* One pass of the loop body of _aggregate over a yielded tuple
jsonl_entry(y, provider_id, year, month) ==
    IF y.provider # Str(provider_id) THEN Skip
    ELSE IF y.ts.year # year \/ y.ts.month # month THEN Skip
    ELSE LET tokens_in == Get(y.usage, "input", Whole(0))
             tokens_out == Get(y.usage, "output", Whole(0))
             cache_read == Get(y.usage, "cacheRead", Whole(0))
             cache_write == Get(y.usage, "cacheWrite", Whole(0))
             cost_obj == Get(y.usage, "cost", EmptyDict)
             cost_total == IF cost_obj.t = "dict" THEN Get(cost_obj.d, "total", Whole(0))
                           ELSE Whole(0)
             explicit == ~Falsy(cost_total) /\ safe_float(cost_total) > 0
         IN IF ~Falsy(cost_total) /\ ~Arithmetic(cost_total)
            THEN [kind |-> "raise", exc |-> "TypeError"]
            ELSE IF \E v \in {tokens_in, tokens_out, cache_read, cache_write} : ~Arithmetic(v)
            THEN [kind |-> "raise", exc |-> "TypeError"]
            ELSE [kind |-> "count",
                  cost |-> IF explicit THEN MicroCents(safe_float(cost_total))
                           ELSE jsonl_calculate_cost(y.model, tokens_in.v, tokens_out.v,
                                                     cache_read.v, cache_write.v),
                  tokens_in |-> tokens_in.v + cache_read.v + cache_write.v,
                  tokens_out |-> tokens_out.v,
                  requests |-> 1]

\* JsonlTracker._aggregate over the decoded lines of the session files:
\* the generator _parse_jsonl runs inside the loop, so what it raises leaves
\* _aggregate.
RECURSIVE JsonlLoop(_, _, _, _, _, _)
JsonlLoop(entries, i, provider_id, year, month, acc) ==
    IF i > Len(entries)
    THEN [kind |-> "returned",
          value |-> [spend |-> Round4(acc.spend), tokens_in |-> acc.tokens_in,
                     tokens_out |-> acc.tokens_out, requests |-> acc.requests]]
    ELSE LET y == parse_jsonl_line(entries[i])
             r == IF y.kind = "yield" THEN jsonl_entry(y, provider_id, year, month)
                  ELSE y
         IN IF r.kind = "raise" THEN Raised(r.exc)
            ELSE JsonlLoop(entries, i + 1, provider_id, year, month,
                           IF r.kind = "skip" THEN acc ELSE AddTo(acc, r))

aggregate(provider_id, year, month, entries) ==
    JsonlLoop(entries, 1, provider_id, year, month, ZeroTotals)

\* JsonlTracker.get_monthly_usage
Jsonl_get_monthly_usage(provider_id, now, entries) ==
    aggregate(provider_id, now.year, now.month, entries)

-----------------------------------------------------------------------------
(* The trackers called on small logs *)

MaxEntries == 2

TsMid      == Iso(2026, 2, 10, 10, 0, FALSE)     \* 2026-02-10T10:00:00Z
TsFirst    == Iso(2026, 2, 1, 0, 0, FALSE)       \* 2026-02-01T00:00:00Z
TsPrev     == Iso(2026, 1, 31, 23, 0, FALSE)     \* 2026-01-31T23:00:00Z
TsEast     == Iso(2026, 2, 1, 0, 2, FALSE)       \* 2026-02-01T00:30:00+02:00
TsWest     == Iso(2026, 1, 31, 23, 0 - 2, FALSE) \* 2026-01-31T23:30:00-02:00
TsLastYear == Iso(2025, 2, 10, 10, 0, FALSE)     \* 2025-02-10T10:00:00Z
TsNaive    == Iso(2026, 2, 10, 10, 0, TRUE)      \* 2026-02-10T10:00:00

IsoStamps == {TsMid, TsFirst, TsPrev, TsEast, TsWest, TsLastYear, TsNaive}

\* What else a "timestamp" field may hold
OddStamps == {Null, Str("yesterday"), List, Epoch(2026, 2), Epoch(2026, 1)}

\* What a token field may hold besides an int
OddTokens == {Str("12"), Str("abc"), Flt(1000), Null, List, Inf}

\* Decoded values that are not objects
NonObjects == {Str("note"), Whole(42), List, Null}

\* A request-log record of tracker.py
LocalRecord(ts, tokens_in, tokens_out) ==
    Dict([timestamp |-> ts, provider |-> Str("google"), model |-> Str("gemini-2.5-pro"),
          input_tokens |-> tokens_in, output_tokens |-> tokens_out])

\* What an explicit cost field may hold: 0.50, 0, -0.50 dollars, a string
\* that is no number, null
CostValues == {Money(50), Money(0), Money(0 - 50), Str("abc"), Null}

LocalCostRecord(c) ==
    Dict([timestamp |-> TsMid, provider |-> Str("google"), model |-> Str("gemini-2.5-pro"),
          input_tokens |-> Whole(1000), output_tokens |-> Whole(2000), cost |-> c])

LocalEntries ==
    {LocalRecord(ts, Whole(1000), Whole(2000)) : ts \in IsoStamps \cup OddStamps}
    \cup {LocalRecord(TsMid, v, Whole(2000)) : v \in OddTokens}
    \cup {LocalRecord(TsMid, Whole(1000), v) : v \in {Str("12"), Null}}
    \cup NonObjects
    \cup {Dict([provider |-> Str("google"), model |-> Str("gemini-2.5-pro"),
                input_tokens |-> Whole(1000), output_tokens |-> Whole(2000)]),
          Dict([timestamp |-> TsMid, model |-> Str("Gemini-2.5-Pro-Preview"),
                tokens_in |-> Whole(1000), tokens_out |-> Whole(2000)]),
          Dict([timestamp |-> TsMid, model |-> Str("grok-3"),
                input_tokens |-> Whole(1000), output_tokens |-> Whole(2000)])}
    \cup {LocalCostRecord(c) : c \in CostValues}

\* A session line of jsonl_tracker.py
SessionLine(ts, usage) ==
    Dict([type |-> Str("message"), timestamp |-> ts,
          message |-> Dict([provider |-> Str("google"), model |-> Str("gemini-2.5-pro"),
                            usage |-> Dict(usage)])])

Usage(tokens_in, cache_read) ==
    [input |-> tokens_in, output |-> Whole(2000), cacheRead |-> cache_read,
     cacheWrite |-> Whole(0)]

PlainUsage == [input |-> Whole(1000), output |-> Whole(2000)]

CacheUsage ==
    [input |-> Whole(1000), output |-> Whole(2000), cacheRead |-> Whole(2000),
     cacheWrite |-> Whole(4000)]

SessionCostLine(c) ==
    SessionLine(TsMid, [input |-> Whole(1000), output |-> Whole(2000),
                        cost |-> Dict([total |-> c])])

JsonlEntries ==
    {SessionLine(ts, PlainUsage) : ts \in IsoStamps \cup OddStamps}
    \cup {SessionLine(TsMid, Usage(v, Whole(1000))) : v \in OddTokens \ {Inf}}
    \cup {SessionLine(TsMid, Usage(Whole(1000), v)) : v \in {Whole(1000), Str("12"), Null}}
    \cup NonObjects
    \cup {Dict([type |-> Str("session"), timestamp |-> TsMid]),
          Dict([type |-> Str("message"), timestamp |-> TsMid, message |-> Str("hello")]),
          Dict([type |-> Str("message"), timestamp |-> TsMid,
                message |-> Dict([provider |-> Str("google"), model |-> Str("gemini-2.5-pro")])]),
          Dict([type |-> Str("message"), ts |-> TsMid,
                message |-> Dict([provider |-> Str("google"), model |-> Str("gemini-2.5-pro"),
                                  usage |-> Dict(PlainUsage)])]),
          Dict([type |-> Str("message"), timestamp |-> TsMid,
                message |-> Dict([provider |-> Str("xai"), model |-> Str("grok-3"),
                                  usage |-> Dict(PlainUsage)])])}
    \cup {SessionCostLine(c) : c \in CostValues}
    \cup {SessionLine(TsMid, CacheUsage)}

Logs(S) == UNION {[1..n -> S] : n \in 0..MaxEntries}

TrackerArgs ==
    {[fn |-> "LocalTracker.get_monthly_usage", provider_id |-> "google", entries |-> es]
        : es \in Logs(LocalEntries)}
    \cup
    {[fn |-> "JsonlTracker.get_monthly_usage", provider_id |-> "google", entries |-> es]
        : es \in Logs(JsonlEntries)}

LocalGetMonthlyUsage ==
    /\ arg.fn = "LocalTracker.get_monthly_usage"
    /\ Finish(Local_get_monthly_usage(arg.provider_id, NowUtc, arg.entries))

JsonlGetMonthlyUsage ==
    /\ arg.fn = "JsonlTracker.get_monthly_usage"
    /\ Finish(Jsonl_get_monthly_usage(arg.provider_id, NowUtc, arg.entries))

TrackerInit ==
    /\ AppIdle
    /\ arg \in TrackerArgs
    /\ out = NoOut

TrackerNext == LocalGetMonthlyUsage \/ JsonlGetMonthlyUsage

TrackerSpec == TrackerInit /\ [][TrackerNext]_vars

-----------------------------------------------------------------------------
(* Log files: LocalTracker._parse_log_file and the line loop of _parse_jsonl *)

\* The text of a file is a sequence of non-blank lines (layout "lines"), each
\* known by its first character and by whether json.loads accepts it, or one
\* JSON array text "[e1, e2, ...]" (layout "array"), which json.loads accepts
\* only when every element is well formed.
ObjLine(entry) == [lead |-> "{", valid |-> TRUE, value |-> entry]
TruncatedLine == [lead |-> "{", valid |-> FALSE]     \* {"timestamp": "2026-
GarbageLine == [lead |-> "n", valid |-> FALSE]       \* not valid json

LinesFile(lines) == [layout |-> "lines", items |-> lines]
ArrayFile(elems) == [layout |-> "array", items |-> elems]

\* content.strip()[0]
LeadOf(file) == IF file.layout = "array" THEN "[" ELSE file.items[1].lead

RECURSIVE ValidValues(_, _)
ValidValues(items, i) ==
    IF i > Len(items) THEN <<>>
    ELSE (IF items[i].valid THEN <<items[i].value>> ELSE <<>>)
            \o ValidValues(items, i + 1)

\* LocalTracker._parse_log_file: a content starting with "{" is read line by
\* line, lines json.loads rejects being skipped; a content starting with "["
\* is decoded whole, and a JSONDecodeError leaves no entries (several lines of
\* which the first starts with "[" are no JSON text); any other content gives
\* no entries.
parse_log_file(file) ==
    IF file.items = <<>> THEN <<>>
    ELSE IF LeadOf(file) = "{" THEN ValidValues(file.items, 1)
    ELSE IF LeadOf(file) = "[" /\ file.layout = "array"
                /\ \A i \in DOMAIN file.items : file.items[i].valid
    THEN ValidValues(file.items, 1)
    ELSE <<>>

\* JsonlTracker._parse_jsonl, lines 197-204: every line is decoded on its own
\* and a JSONDecodeError skips the line; an array text is one line, decoded
\* to a list.
jsonl_decoded_lines(file) ==
    IF file.layout = "lines" THEN ValidValues(file.items, 1)
    ELSE IF \A i \in DOMAIN file.items : file.items[i].valid THEN <<List>>
    ELSE <<>>

MaxItems == 3

LocalRecords ==
    {LocalRecord(TsMid, Whole(1000), Whole(2000)), LocalRecord(TsMid, Whole(2000), Whole(2000))}

SessionRecords ==
    {SessionLine(TsMid, PlainUsage), SessionLine(TsMid, Usage(Whole(1000), Whole(1000)))}

BadElem == [valid |-> FALSE]

FilesOf(records) ==
    {LinesFile(ls) : ls \in UNION {[1..n -> {ObjLine(r) : r \in records}
                                            \cup {TruncatedLine, GarbageLine}]
                                    : n \in 0..MaxItems}}
    \cup
    {ArrayFile(es) : es \in UNION {[1..n -> {[valid |-> TRUE, value |-> r] : r \in records}
                                            \cup {BadElem}]
                                    : n \in 0..MaxItems}}

FileArgs ==
    {[fn |-> "LocalTracker._parse_log_file", file |-> f] : f \in FilesOf(LocalRecords)}
    \cup
    {[fn |-> "JsonlTracker._parse_jsonl", provider_id |-> "google", file |-> f]
        : f \in FilesOf(SessionRecords)}

LocalParseLogFile ==
    /\ arg.fn = "LocalTracker._parse_log_file"
    /\ Finish([kind |-> "returned", value |-> parse_log_file(arg.file)])

\* _aggregate driving the generator _parse_jsonl over one session file
JsonlParseJsonl ==
    /\ arg.fn = "JsonlTracker._parse_jsonl"
    /\ Finish(Jsonl_get_monthly_usage(arg.provider_id, NowUtc, jsonl_decoded_lines(arg.file)))

FileInit ==
    /\ AppIdle
    /\ arg \in FileArgs
    /\ out = NoOut

FileNext == LocalParseLogFile \/ JsonlParseJsonl

FileSpec == FileInit /\ [][FileNext]_vars

-----------------------------------------------------------------------------
(* The properties of a UsageData snapshot read on small amounts *)

MaxSpend == 8
MaxBudget == 6

\* Dollars; a spend or a budget below zero is what a refund or a mistyped
\* configuration gives.
SpendValues == (0 - 2)..MaxSpend
BudgetValues == (0 - 2)..MaxBudget

SnapshotArgs ==
    {[fn |-> f, usage |-> UsageData("google", s, b, 0)]
        : f \in {"UsageData.usage_percent", "UsageData.remaining"},
          s \in SpendValues, b \in BudgetValues}

ReadUsagePercent ==
    /\ arg.fn = "UsageData.usage_percent"
    /\ Finish([kind |-> "returned", value |-> usage_percent(arg.usage)])

ReadRemaining ==
    /\ arg.fn = "UsageData.remaining"
    /\ Finish([kind |-> "returned", value |-> remaining(arg.usage)])

SnapshotInit ==
    /\ AppIdle
    /\ arg \in SnapshotArgs
    /\ out = NoOut

SnapshotNext == ReadUsagePercent \/ ReadRemaining

SnapshotSpec == SnapshotInit /\ [][SnapshotNext]_vars

-----------------------------------------------------------------------------
(* Paginated fetches: AnthropicProvider._call_cost_api, _call_usage_api and   *)
(* OpenAIProvider._call_costs_api. One step is one iteration of "while True". *)

\* The results a page may carry. amount is in millionths of the unit the API
\* reports (Anthropic: cents, as a string; OpenAI: dollars, under "value").
Result1 ==
    [amount |-> 2500000, uncached_input_tokens |-> 100, cache_read_input_tokens |-> 50,
     output_tokens |-> 20]
Result2 ==
    [amount |-> 26000, uncached_input_tokens |-> 7, cache_read_input_tokens |-> 0,
     output_tokens |-> 3]

\* "data": a list of buckets, each with a list of "results"
PageData == {<<>>, <<<<Result1>>>>, <<<<Result1, Result2>>, <<Result2>>>>}

PageTokens == {"p2", "p3"}

\* The month's bill is finite: at most MaxDataPages pages carry results. The
\* server stays free to go on announcing further (empty) pages.
MaxDataPages == 2

\* What the server may answer to a request: an HTTP error (raise_for_status
\* raises), or a page with "has_more" (absent: False) and "next_page" (absent
\* or null: None).
Responses(data_pages) ==
    {[status |-> "error"]}
    \cup {[status |-> "ok", data |-> d, has_more |-> h, next_page |-> n]
            : d \in IF data_pages < MaxDataPages THEN PageData ELSE {<<>>},
              h \in BOOLEAN, n \in PageTokens \cup {None, ""}}

RECURSIVE SumResults(_, _, _)
SumResults(results, i, field) ==
    IF i > Len(results) THEN 0
    ELSE results[i][field] + SumResults(results, i + 1, field)

\* As SumBuckets, counting the first result of each bucket only.
RECURSIVE SumBucketsFirstResult(_, _, _)
SumBucketsFirstResult(data, i, field) ==
    IF i > Len(data) THEN 0
    ELSE (IF data[i] = <<>> THEN 0 ELSE data[i][1][field])
            + SumBucketsFirstResult(data, i + 1, field)

\* "for bucket in data.get("data", []): for result in bucket.get("results", [])":
\* the field summed over every result of every bucket of the page
RECURSIVE SumBuckets(_, _, _)
SumBuckets(data, i, field) ==
    IF i > Len(data) THEN 0
    ELSE SumResults(data[i], 1, field) + SumBuckets(data, i + 1, field)

\* All results of a page, bucket after bucket
RECURSIVE AllResults(_)
AllResults(data) == IF data = <<>> THEN <<>> ELSE Head(data) \o AllResults(Tail(data))

\* The locals when the loop is entered: page = None, the totals 0. The last
\* three fields observe the exchange: the "page" parameter of the last request
\* (<<>>: none sent), the page received before it, and all amounts received.
PagerStart ==
    [pc |-> "loop", page |-> None, total_spend |-> 0, total_tokens_in |-> 0,
     total_tokens_out |-> 0, data_pages |-> 0,
     asked |-> <<>>, before |-> <<>>, last |-> <<>>, received |-> 0]

Cur == IF pager = NoPager THEN PagerStart ELSE pager

\* "if page: params["page"] = page"
PageParam(page) == IF Truthy(page) THEN <<page>> ELSE <<>>

\* The totals after the results of page r are added
Accumulate(fn, p, r) ==
    CASE fn = "AnthropicProvider._call_cost_api" ->
            [p EXCEPT !.total_spend = @ + SumBuckets(r.data, 1, "amount")]
      [] fn = "OpenAIProvider._call_costs_api" ->
            [p EXCEPT !.total_spend = @ + SumBuckets(r.data, 1, "amount")]
      [] fn = "AnthropicProvider._call_usage_api" ->
            [p EXCEPT !.total_tokens_in = @ + SumBuckets(r.data, 1, "uncached_input_tokens")
                                            + SumBuckets(r.data, 1, "cache_read_input_tokens"),
                      !.total_tokens_out = @ + SumBuckets(r.data, 1, "output_tokens")]

\* What the function returns once the loop is left. Anthropic adds
\* amount_cents / 100.0 and rounds the dollars to 4 places; OpenAI adds
\* dollars and rounds them to 4 places.
PagerResult(fn, p) ==
    CASE fn = "AnthropicProvider._call_cost_api" ->
            [spend |-> Round4(p.total_spend)]
      [] fn = "OpenAIProvider._call_costs_api" ->
            [spend |-> Round4(p.total_spend * 100), tokens_in |-> 0, tokens_out |-> 0]
      [] fn = "AnthropicProvider._call_usage_api" ->
            [tokens_in |-> p.total_tokens_in, tokens_out |-> p.total_tokens_out]

\* "if not data.get("has_more", False): break" and "if not next_page: break"
LoopEnds(r) == ~r.has_more \/ ~Truthy(r.next_page)

\* One iteration: the request, the response, the sums, and the break (with
\* the return) or the next page token.
PageStep(fn) ==
    /\ arg.fn = fn
    /\ out = NoOut
    /\ pager.pc # "done"
    /\ \E r \in Responses(Cur.data_pages) :
        LET sent == [Cur EXCEPT !.asked = PageParam(Cur.page), !.before = Cur.last]
        IN IF r.status = "error"
           THEN /\ pager' = [sent EXCEPT !.pc = "done"]
                /\ out' = Raised("HTTPError")
           ELSE LET got == [Accumulate(fn, sent, r) EXCEPT
                                !.last = <<[has_more |-> r.has_more, next_page |-> r.next_page]>>,
                                !.received = @ + SumResults(AllResults(r.data), 1, "amount"),
                                !.data_pages = IF r.data = <<>> THEN @ ELSE @ + 1]
                IN IF LoopEnds(r)
                   THEN /\ pager' = [got EXCEPT !.pc = "done"]
                        /\ out' = [kind |-> "returned", value |-> PagerResult(fn, got)]
                   ELSE /\ pager' = [got EXCEPT !.page = r.next_page]
                        /\ out' = out
    /\ UNCHANGED <<arg, callers, deliveries, cfgVars, clockVars, appVars, thrVars,
                   sent_alerts, passVars, lockHist, notifHist>>

AnthropicCostPage == PageStep("AnthropicProvider._call_cost_api")
AnthropicUsagePage == PageStep("AnthropicProvider._call_usage_api")
OpenAICostsPage == PageStep("OpenAIProvider._call_costs_api")

PagerArgs ==
    {[fn |-> f] : f \in {"AnthropicProvider._call_cost_api",
                         "AnthropicProvider._call_usage_api",
                         "OpenAIProvider._call_costs_api"}}

PagerInit ==
    /\ AppIdle
    /\ arg \in PagerArgs
    /\ out = NoOut

PagerNext == AnthropicCostPage \/ AnthropicUsagePage \/ OpenAICostsPage

PagerSpec == PagerInit /\ [][PagerNext]_vars

\* Every request carries timeout=30, so each iteration ends and the loop is
\* never stuck inside a step: the next iteration is always taken.
PagerFairSpec == PagerSpec /\ WF_vars(PagerNext)

-----------------------------------------------------------------------------
(* notifier.check_and_notify called by two threads at once. _alerts_lock is   *)
(* held for the membership test and for the add, each on its own; the         *)
(* delivery (osascript) runs between them with the lock free. One step is one *)
(* critical section or the code between two of them.                          *)

Callers == 1..2

AlertKeys == {AlertKey(pid, t) : pid \in NotifierProviders, t \in ThresholdValues}

ConcurrentArgs ==
    {[fn |-> "notifier.check_and_notify", calls |-> cs]
        : cs \in [Callers -> [provider_id : NotifierProviders, usage_percent : {70, 82, 96}]]}

\* The two threads enter check_and_notify: "for threshold in sorted(thresholds)"
StartCalls ==
    /\ arg.fn = "notifier.check_and_notify"
    /\ callers = NoCallers
    /\ callers' = [c \in Callers |->
                    [pc |-> "test", i |-> 1, already_sent |-> FALSE,
                     ths |-> IterationOrder(alertThresholds)]]
    /\ deliveries' = [k \in AlertKeys |-> 0]
    /\ UNCHANGED <<arg, out, pager, cfgVars, clockVars, appVars, thrVars, sent_alerts,
                   passVars, lockHist, notifHist>>

KeyOf(c) == AlertKey(arg.calls[c].provider_id, callers[c].ths[callers[c].i])

\* "with _alerts_lock: already_sent = alert_key in _sent_alerts", or the end
\* of the loop
TestSent(c) ==
    /\ callers # NoCallers
    /\ callers[c].pc = "test"
    /\ callers' = [callers EXCEPT ![c] =
                    IF callers[c].i > Len(callers[c].ths) THEN [@ EXCEPT !.pc = "done"]
                    ELSE [@ EXCEPT !.pc = "decide",
                                   !.already_sent = KeyOf(c) \in sent_alerts]]
    /\ UNCHANGED <<arg, out, pager, deliveries, cfgVars, clockVars, appVars, thrVars,
                   sent_alerts, passVars, lockHist, notifHist>>

\* "if usage_percent >= threshold and not already_sent: delivered =
\* _send_notification(...)"; without a delivery to record, the next threshold
Deliver(c) ==
    /\ callers # NoCallers
    /\ callers[c].pc = "decide"
    /\ IF ShouldAlert(arg.calls[c].usage_percent, callers[c].ths[callers[c].i],
                      callers[c].already_sent)
       THEN \E o \in DeliveryOutcomes :
              IF send_notification(o)
              THEN /\ deliveries' = [deliveries EXCEPT ![KeyOf(c)] = @ + 1]
                   /\ callers' = [callers EXCEPT ![c].pc = "add"]
              ELSE /\ deliveries' = deliveries
                   /\ callers' = [callers EXCEPT ![c].pc = "test", ![c].i = @ + 1]
       ELSE /\ deliveries' = deliveries
            /\ callers' = [callers EXCEPT ![c].pc = "test", ![c].i = @ + 1]
    /\ UNCHANGED <<arg, out, pager, cfgVars, clockVars, appVars, thrVars, sent_alerts,
                   passVars, lockHist, notifHist>>

\* "if delivered: with _alerts_lock: _sent_alerts.add(alert_key)"
AddSent(c) ==
    /\ callers # NoCallers
    /\ callers[c].pc = "add"
    /\ sent_alerts' = MarkSent(sent_alerts, KeyOf(c), TRUE)
    /\ callers' = [callers EXCEPT ![c].pc = "test", ![c].i = @ + 1]
    /\ UNCHANGED <<arg, out, pager, deliveries, cfgVars, clockVars, appVars, thrVars,
                   passVars, lockHist, notifHist>>

ConcurrentInit ==
    /\ AppIdle
    /\ arg \in ConcurrentArgs
    /\ out = NoOut

ConcurrentNext ==
    \/ StartCalls
    \/ \E c \in Callers :
        \/ TestSent(c)
        \/ Deliver(c)
        \/ AddSent(c)

ConcurrentSpec == ConcurrentInit /\ [][ConcurrentNext]_vars

-----------------------------------------------------------------------------
(* The application with the page requests of a fetch as steps of their own:   *)
(* inside provider.fetch_usage, _call_cost_api, _call_usage_api and           *)
(* _call_costs_api request page after page for as long as the server answers  *)
(* with has_more and a next_page token. The refresh thread holds              *)
(* _refresh_lock all the while.                                               *)

\* The providers whose fetch_usage runs a pagination loop.
PaginatedProviders == {"anthropic", "openai"}

\* The page token of the request in flight (None before the first answer).
PageAsked == IF pager = NoPager THEN None ELSE pager.page

\* One more turn of "while True": the page that came back has has_more and a
\* next_page token other than the one just asked for; the next request is sent.
FetchPage(t) ==
    /\ InLoop(t)
    /\ is_provider_enabled(enabled, Providers[idx[t]])
    /\ Providers[idx[t]] \in PaginatedProviders
    /\ \E next_page \in PageTokens \ {PageAsked} :
            pager' = [pc |-> "requesting", page |-> next_page]
    /\ UNCHANGED <<arg, out, callers, deliveries, cfgVars, clockVars, appVars, thrVars,
                   sent_alerts, passVars, lockHist, notifHist>>

\* The steps of refresh thread t.
ThreadStep(t) ==
    \/ TryAcquire(t)
    \/ RolloverCheck(t)
    \/ SkipDisabled(t)
    \/ FetchPage(t)
    \/ FetchRaises(t)
    \/ FetchReturns(t)
    \/ LoopExit(t)
    \/ Release(t)
    \/ ScheduleUi(t)

PagedNext ==
    \/ Tick
    \/ AutoRefresh
    \/ OnRefreshClick
    \/ DoUiUpdate
    \/ \E t \in Threads : ThreadStep(t)

PagedSpec == Init /\ [][PagedNext]_vars

\* Every started thread keeps running and the main thread's run loop keeps
\* serving scheduled callbacks; the timer, the user and the server are free.
PagedFairSpec ==
    /\ PagedSpec
    /\ \A t \in Threads : WF_<<thrVars, pager>>(ThreadStep(t))
    /\ WF_ui_pending(DoUiUpdate)

\* The application with every fetch atomic, under the same fairness.
FairSpec ==
    /\ Spec
    /\ \A t \in Threads : WF_thrVars(ThreadStep(t) /\ pager' = pager)
    /\ WF_ui_pending(DoUiUpdate)

-----------------------------------------------------------------------------
(* Properties of the refresh orchestration (Spec) *)

\* Thread t is inside _do_refresh's try block or its finally clause, holding
\* the refresh lock.
InPass(t) == pc[t] \in {"refresh", "loop", "finally"}

\* _refresh_data has ended (by return or by exception); the lock is still held.
PassEnded(t) == pc[t] = "finally"

Cached(p) == p \in DOMAIN usage_data

C2_EveryEnabledFetchedOnce ==
    \A t \in Threads :
        PassEnded(t) => \A p \in enabled : fetches[p] = 1

Months == 1..12

\* A cache holding one snapshot, and alert keys of its provider.
SampleCache ==
    CacheWrite(<<>>, Providers[1],
               UsageData(Providers[1], 27, get_provider_budget(Providers[1]), 0))

SampleSent == {AlertKey(Providers[1], DefaultThresholds[i]) : i \in 1..Len(DefaultThresholds)}

\* C3. In a pass that saw a month other than the one last observed, once the
\* rollover check is done: _last_month is the month the pass read; the cache
\* holds only snapshots returned in this pass (so it is empty until a fetch
\* of this pass has returned) and no entry for a provider whose fetch raised;
\* _sent_alerts holds only alerts delivered in this pass; and the rollover
\* step, at the month the pass read, empties whatever cache and sent-set it is
\* given when the month last observed differs.
C3_RolloverClearsBeforeFetch ==
    \A t \in Threads :
        (pc[t] \in {"loop", "finally"} /\ rolled) =>
            /\ pc[t] = "loop" => last_month = current_month[t]
            /\ \A p \in DOMAIN usage_data :
                    outcome[p] = "returned" /\ usage_data[p] = ret[p]
            /\ \A p \in ProviderIds : outcome[p] = "raised" => ~Cached(p)
            /\ sent_alerts \subseteq pass_delivered
            /\ pc[t] = "loop" =>
                 \A last \in Months \ {current_month[t]} :
                 \A cache \in {<<>>, SampleCache} :
                 \A sent \in SUBSET SampleSent :
                    LET r == MonthRollover(current_month[t], last, cache, sent)
                    IN r.reset /\ r.usage_data = <<>> /\ r.sent = {}
                       /\ r.last_month = current_month[t]

\* A pass that saw a new month has ended, a fetch of it having raised.
C3_Witness ==
    \E t \in Threads :
        PassEnded(t) /\ rolled /\ \E p \in ProviderIds : outcome[p] = "raised"

\* C4. At most one thread is in a pass at any time, the lock is held exactly
\* while a thread is in a pass, and a thread that found the lock held has
\* returned without entering _refresh_data and never enters it.
C4_AtMostOnePass ==
    /\ Cardinality({t \in Threads : InPass(t)}) <= 1
    /\ \A t \in Threads : InPass(t) <=> refresh_lock = t
    /\ \A t \in Threads : sawHeld[t] => (pc[t] = "skipped" /\ ~started[t])

\* A refresh was suppressed while another thread is in the provider loop.
C4_Witness ==
    \E t, u \in Threads : sawHeld[t] /\ pc[t] = "skipped" /\ pc[u] = "loop"

-----------------------------------------------------------------------------
(* Properties of the notifier (NotifierSpec) *)

\* The configured thresholds, as a set.
ThrSet == {alertThresholds[i] : i \in 1..Len(alertThresholds)}

\* The configured thresholds a usage reaches.
Reached(percent) == {t \in ThrSet : percent >= t}

\* The thresholds of the deliveries of a call, in the order attempted.
AttemptedSeq(attempts) == [i \in 1..Len(attempts) |-> attempts[i].threshold]

\* The watched provider's last event is the second of two successive calls with
\* the same usage, every delivery of both having succeeded.
RepeatedCall ==
    /\ last_call.kind = "call"
    /\ last_call.prev.kind = "call"
    /\ last_call.prev.same
    /\ last_call.prev.ok
    /\ AllDelivered(last_call.attempts)

\* C5, as stated. Of two successive calls with the same usage and successful
\* delivery, the first attempts exactly one delivery for every threshold the
\* usage reaches and the second attempts none.
C5_OneDeliveryPerReachedThreshold ==
    RepeatedCall =>
        /\ last_call.prev.tried = Reached(last_call.usage)
        /\ last_call.prev.n = Cardinality(Reached(last_call.usage))
        /\ last_call.attempts = <<>>

\* C5, amended. Of two successive calls with the same usage and successful
\* delivery, the first attempts exactly one delivery for every threshold the
\* usage reaches that is not yet notified when it starts, and none for the
\* others; the second attempts none.
C5_OneDeliveryPerUnnotifiedThreshold ==
    RepeatedCall =>
        /\ last_call.prev.tried = Reached(last_call.usage) \ last_call.prev.pre
        /\ last_call.prev.n = Cardinality(last_call.prev.tried)
        /\ last_call.attempts = <<>>

\* The second of two such calls has been made, the first having delivered.
C5_Witness == RepeatedCall /\ last_call.prev.tried # {}

\* Once a delivery for a pair has succeeded, no later delivery is attempted for
\* it (neither by a later call nor later in the same call) until a reset.
NoAttemptAfterSuccess ==
    /\ Tried(last_call.attempts) \cap last_call.pre_ok = {}
    /\ \A i, j \in 1..Len(last_call.attempts) :
            (i < j /\ last_call.attempts[i].threshold = last_call.attempts[j].threshold)
                => ~Succeeded(last_call.attempts[i])

\* C6, as stated. A threshold with a failed delivery in a call is attempted
\* again by the provider's next call whose usage reaches it; and after a
\* successful delivery no further one is attempted until a reset.
C6_FailedDeliveryRetried ==
    (last_call.kind = "call" /\ last_call.prev.kind = "call") =>
        /\ \A t \in last_call.prev.failed :
                last_call.usage >= t => t \in Tried(last_call.attempts)
        /\ NoAttemptAfterSuccess

\* C6, amended. A threshold whose deliveries in a call all failed (the pair is
\* still not notified when the call returns) is attempted again by the
\* provider's next call whose usage reaches it; and after a successful delivery
\* no further one is attempted until a reset.
C6_UnnotifiedFailureRetried ==
    (last_call.kind = "call" /\ last_call.prev.kind = "call") =>
        /\ \A t \in last_call.prev.unsent :
                last_call.usage >= t => t \in Tried(last_call.attempts)
        /\ NoAttemptAfterSuccess

\* A delivery that failed in one call was retried, with success, in the next.
C6_Witness ==
    /\ last_call.kind = "call"
    /\ last_call.prev.kind = "call"
    /\ last_call.prev.unsent \cap DeliveredIn(last_call.attempts) # {}

\* C7. Every alert key in _sent_alerts had a delivery that osascript completed
\* with status 0 since the last reset.
C7_SentOnlyAfterConfirmedDelivery == sent_alerts \subseteq delivered_ok

\* A delivery timed out, its pair staying out of _sent_alerts, while another
\* pair is in it.
C7_Witness ==
    /\ sent_alerts # {}
    /\ last_call.kind = "call"
    /\ \E i \in 1..Len(last_call.attempts) :
            /\ last_call.attempts[i].outcome = "timeout"
            /\ AlertKey(watched, last_call.attempts[i].threshold) \notin sent_alerts

\* C8. After reset_alerts no pair of the provider is notified, and the
\* provider's first call after it attempts delivery for every threshold its
\* usage reaches.
C8_ResetRearmsEveryPair ==
    /\ last_call.kind = "reset" => ThresholdsOf(watched, sent_alerts) = {}
    /\ (last_call.kind = "call" /\ last_call.prev.kind = "reset") =>
            /\ last_call.pre = {}
            /\ Tried(last_call.attempts) = Reached(last_call.usage)

\* The first call after a reset attempts a pair that was notified before it.
C8_Witness ==
    /\ last_call.kind = "call"
    /\ last_call.prev.kind = "reset"
    /\ last_call.prev.pre \cap Tried(last_call.attempts) # {}

\* C9. A call attempts delivery for exactly the thresholds its usage reaches
\* that are not yet notified when it starts; and with thresholds [80, 95],
\* successful delivery and no reset, the usages 70, 82, 96 give no delivery,
\* then one for 80, then one for 95.
C9_AttemptIffReachedAndUnnotified ==
    /\ last_call.kind = "call" =>
            Tried(last_call.attempts) = Reached(last_call.usage) \ last_call.pre
    /\ alertThresholds = DefaultThresholds =>
            /\ ex_stage = 1 => last_call.attempts = <<>>
            /\ ex_stage = 2 => AttemptedSeq(last_call.attempts) = <<DefaultThresholds[1]>>
            /\ ex_stage = 3 => AttemptedSeq(last_call.attempts) = <<DefaultThresholds[2]>>

\* The usages 70, 82, 96 have been fed through with thresholds [80, 95].
C9_Witness == alertThresholds = DefaultThresholds /\ ex_stage = 3

\* C10. A call attempts, in that same call, every threshold its usage reaches
\* that is not yet notified, and attempts them in ascending threshold order.
C10_AllReachedInAscendingOrder ==
    last_call.kind = "call" =>
        /\ (Reached(last_call.usage) \ last_call.pre) \subseteq Tried(last_call.attempts)
        /\ \A i, j \in 1..Len(last_call.attempts) :
                i < j => last_call.attempts[i].threshold <= last_call.attempts[j].threshold

\* One call attempted two thresholds, the configured list being in descending
\* order.
C10_Witness ==
    /\ last_call.kind = "call"
    /\ Cardinality(Tried(last_call.attempts)) >= 2
    /\ Len(alertThresholds) >= 2
    /\ alertThresholds[1] > alertThresholds[2]

-----------------------------------------------------------------------------
(* Properties of the providers' fetch_usage (ProviderSpec) *)

\* The fetch_usage call of provider p has returned or raised.
Fetched(p) == arg.fn = p /\ out # NoOut

\* The call had no tracker and no manual spend to fall back on.
NoFallback ==
    /\ arg.fn \in {"openai", "google", "xai"} => arg.tracker.kind = "none"
    /\ arg.fn = "openai" => arg.manual_spend = NoManual

\* C11. With a credential present and the remote cost call failing,
\* AnthropicProvider.fetch_usage and OpenAIProvider.fetch_usage (no tracker,
\* no manual spend) raise the error instead of returning a snapshot.
C11_ApiFailureRaises ==
    ((Fetched("anthropic") \/ Fetched("openai"))
        /\ Truthy(arg.api_key) /\ ~arg.cost.ok /\ NoFallback)
    => out = Raised(arg.cost.exc)

\* C12. When the Anthropic cost call succeeds and the token-count call fails,
\* fetch_usage returns a snapshot with the cost obtained, zero token counts and
\* a non-empty error annotation.
C12_TokenFailureKeepsCost ==
    (Fetched("anthropic") /\ Truthy(arg.api_key) /\ arg.cost.ok /\ ~arg.usage.ok)
    => /\ out.kind = "returned"
       /\ out.usage.current_spend = arg.cost.spend
       /\ out.usage.tokens_in = 0
       /\ out.usage.tokens_out = 0
       /\ "error" \in DOMAIN out.usage
       /\ Truthy(out.usage.error)

\* C13. When GoogleProvider has a tracker whose get_monthly_usage raises,
\* fetch_usage raises that error.
C13_GoogleTrackerErrorRaises ==
    (Fetched("google") /\ arg.tracker.kind # "none" /\ arg.tracker.raises)
    => out = Raised(arg.tracker.exc)

\* The snapshot carries the tracker's totals.
HasTrackerTotals(u, totals) ==
    /\ u.current_spend = totals.spend
    /\ u.tokens_in = totals.tokens_in
    /\ u.tokens_out = totals.tokens_out

\* C14. XAIProvider.fetch_usage follows the tier order: the billing result
\* when the billing call succeeds; otherwise, with a tracker, the tracker's
\* totals, annotated 'Billing API failed: ...' when the billing call had
\* failed; otherwise the billing error is raised if the call had failed;
\* otherwise the zero-state snapshot is returned.
C14_XaiTierOrder ==
    (Fetched("xai") /\ (arg.tracker.kind # "none" => ~arg.tracker.raises))
    => IF xai_billing(arg) = "ok"
       THEN /\ out.kind = "returned"
            /\ out.usage.current_spend = arg.cost.spend
            /\ out.usage.monthly_budget = arg.budget
       ELSE IF arg.tracker.kind # "none"
       THEN /\ out.kind = "returned"
            /\ HasTrackerTotals(out.usage, arg.tracker.totals)
            /\ out.usage.monthly_budget = arg.budget
            /\ xai_billing(arg) = "failed" =>
                    /\ "error" \in DOMAIN out.usage
                    /\ out.usage.error = "Billing API failed: " \o arg.cost.exc
       ELSE IF xai_billing(arg) = "failed"
       THEN out = Raised(arg.cost.exc)
       ELSE /\ out.kind = "returned"
            /\ out.usage.current_spend = 0
            /\ out.usage.monthly_budget = arg.budget

\* C15. Each provider's fetch_usage, called without a credential and with no
\* tracker and no manual spend, returns the zero-state snapshot: spend and
\* token counts 0, monthly_budget the budget passed in.
C15_NoSourceZeroState ==
    (out # NoOut /\ arg.fn \in ProviderIds /\ ~Truthy(arg.api_key) /\ NoFallback)
    => /\ out.kind = "returned"
       /\ out.usage.current_spend = 0
       /\ out.usage.tokens_in = 0
       /\ out.usage.tokens_out = 0
       /\ out.usage.monthly_budget = arg.budget

\* OpenAIProvider.fetch_usage has returned, called with no key, no tracker and
\* no manual spend.
C15_Witness ==
    /\ Fetched("openai")
    /\ ~Truthy(arg.api_key)
    /\ NoFallback
    /\ out.kind = "returned"

-----------------------------------------------------------------------------
(* Properties of _get_totals (TotalsSpec) *)

\* The providers that are enabled and have a snapshot in the cache.
EnabledCached == arg.enabled \cap DOMAIN arg.cache

CachedSpend == [p \in DOMAIN arg.cache |-> arg.cache[p].current_spend]

CachedBudget == [p \in DOMAIN arg.cache |-> arg.cache[p].monthly_budget]

ConfiguredBudget == [p \in ProviderIds |-> get_provider_budget(p)]

\* C16, as stated. _get_totals returns the spend and the budget summed over
\* exactly the providers that are enabled and have a cached snapshot.
C16_TotalsOverEnabledCached ==
    (arg.fn = "get_totals" /\ out # NoOut) =>
        /\ out.totals[1] = SumOver(EnabledCached, CachedSpend)
        /\ out.totals[2] = SumOver(EnabledCached, CachedBudget)

\* C16, amended. _get_totals returns the spend summed over the providers that
\* are enabled and have a cached snapshot, and the budget summed over all
\* enabled providers (from the configuration), cached or not; a disabled
\* provider contributes to neither sum.
C16_SpendOverCachedBudgetOverEnabled ==
    (arg.fn = "get_totals" /\ out # NoOut) =>
        /\ out.totals[1] = SumOver(EnabledCached, CachedSpend)
        /\ out.totals[2] = SumOver(arg.enabled, ConfiguredBudget)

\* Totals were taken with an enabled provider missing from the cache and a
\* disabled provider cached with a spend.
C16_Witness ==
    /\ arg.fn = "get_totals"
    /\ out # NoOut
    /\ arg.enabled \ DOMAIN arg.cache # {}
    /\ \E p \in DOMAIN arg.cache \ arg.enabled : arg.cache[p].current_spend > 0

-----------------------------------------------------------------------------
(* Properties of _get_pricing (PricingSpec) *)

\* The PRICING table of the module whose _get_pricing was called.
TableCalled ==
    IF arg.fn = "jsonl_tracker._get_pricing" THEN JsonlPricing ELSE TrackerPricing

\* The positions of the registered keys that are prefixes of the name called
\* with, ignoring case.
PrefixHits ==
    {j \in 1..Len(TableCalled) : StartsWith(Lower(arg.model), TableCalled[j][1])}

\* C17. For a model name with a registered key as prefix (case-insensitive),
\* _get_pricing returns the entry of the longest registered key that is a
\* prefix of the name; 'gpt-4.1-mini-2025' resolves to the 'gpt-4.1-mini' entry.
C17_LongestPrefixWins ==
    (arg.fn \in {"jsonl_tracker._get_pricing", "tracker._get_pricing"}
        /\ out # NoOut /\ PrefixHits # {})
    => \E j \in PrefixHits :
            /\ \A k \in PrefixHits : Len(TableCalled[k][1]) <= Len(TableCalled[j][1])
            /\ out.value = Pricing(TableCalled[j][2])

-----------------------------------------------------------------------------
(* Properties of the monthly aggregation (TrackerSpec) *)

TrackerCalled ==
    arg.fn \in {"LocalTracker.get_monthly_usage", "JsonlTracker.get_monthly_usage"}

\* A well-formed record of the queried provider with 1000 input and 2000
\* output tokens and an ISO timestamp
PlainRecord(entry) ==
    \E ts \in IsoStamps :
        entry \in {LocalRecord(ts, Whole(1000), Whole(2000)), SessionLine(ts, PlainUsage)}

InCurrentUtcMonth(entry) == UtcMonthOf(entry.d.timestamp) = NowUtc

\* C18: a record is counted by the monthly aggregation of either tracker if
\* and only if its timestamp, taken as a UTC instant, falls in the current UTC
\* year and month, whatever UTC offset the timestamp string carries: over a
\* log of well-formed records the output tokens returned are those of exactly
\* the records whose instant lies in the current UTC month.
C18_CountedIffInUtcMonth ==
    (TrackerCalled /\ out.kind = "returned"
        /\ \A i \in DOMAIN arg.entries : PlainRecord(arg.entries[i]))
    => out.value.tokens_out
         = 2000 * Cardinality({i \in DOMAIN arg.entries : InCurrentUtcMonth(arg.entries[i])})

\* A record of the queried provider in the current month whose token fields
\* hold any of the sampled values
TokenVariant(entry) ==
    \E v, w \in OddTokens \cup {Whole(1000), Whole(2000)} :
        entry \in {LocalRecord(TsMid, v, w), SessionLine(TsMid, Usage(v, w))}

\* The number a token field stands for: its integer value, 0 when it has none
Coerced(v) == IF safe_int(v).ok THEN safe_int(v).v ELSE 0

\* The input tokens a record contributes once its fields are coerced
CoercedTokensIn(entry) ==
    IF "input_tokens" \in DOMAIN entry.d THEN Coerced(entry.d.input_tokens)
    ELSE LET u == entry.d.message.d.usage.d
         IN Coerced(u.input) + Coerced(u.cacheRead) + Coerced(u.cacheWrite)

RECURSIVE SumCoercedTokensIn(_, _)
SumCoercedTokensIn(entries, i) ==
    IF i > Len(entries) THEN 0
    ELSE CoercedTokensIn(entries[i]) + SumCoercedTokensIn(entries, i + 1)

\* C19: token fields holding strings, floats, null or non-numeric values are
\* coerced to a number (0 when the coercion fails): over records that differ
\* from well-formed ones only in the type of their token fields, neither
\* tracker's aggregation raises, and the input tokens returned are the sum of
\* the coerced fields.
C19_TokenFieldsCoercedNeverRaise ==
    (TrackerCalled /\ out # NoOut
        /\ \A i \in DOMAIN arg.entries : TokenVariant(arg.entries[i]))
    => /\ out.kind = "returned"
       /\ out.value.tokens_in = SumCoercedTokensIn(arg.entries, 1)

\* An entry that is not an object, or an object without a usable timestamp
\* (none, null, an array, or a string that is no date)
Malformed(entry) ==
    \/ entry \in NonObjects
    \/ /\ entry.t = "dict"
       /\ "ts" \notin DOMAIN entry.d
       /\ Get(entry.d, "timestamp", Null) \in {Null, List, Str("yesterday")}

\* The tracker called again on another log
SameCallOn(entries) ==
    IF arg.fn = "LocalTracker.get_monthly_usage"
    THEN Local_get_monthly_usage(arg.provider_id, NowUtc, entries)
    ELSE Jsonl_get_monthly_usage(arg.provider_id, NowUtc, entries)

\* C20: in both trackers, aggregation over a log that mixes well-formed
\* records with entries that are not objects (strings, numbers, arrays) or
\* that lack a usable timestamp completes without raising and returns the
\* totals it returns for the log with those entries removed.
C20_MalformedEntriesSkipped ==
    (TrackerCalled /\ out # NoOut
        /\ \A i \in DOMAIN arg.entries :
              PlainRecord(arg.entries[i]) \/ Malformed(arg.entries[i]))
    => /\ out.kind = "returned"
       /\ out = SameCallOn(SelectSeq(arg.entries, PlainRecord))


\* A record of the queried provider in the current month with 1000 input and
\* 2000 output tokens of gemini-2.5-pro and an explicit cost field
CostRecord(entry) ==
    \E c \in CostValues : entry \in {LocalCostRecord(c), SessionCostLine(c)}

ExplicitCostOf(entry) ==
    IF "cost" \in DOMAIN entry.d THEN entry.d.cost
    ELSE entry.d.message.d.usage.d.cost.d.total

\* The cost the record is to be counted with, in micro-cents: the explicit
\* value when it is a number greater than zero, else the price of its tokens
\* (1000 * 125 + 2000 * 1000 micro-cents in either pricing table)
CostToCount(entry) ==
    LET c == ExplicitCostOf(entry)
    IN IF c.t = "money" /\ c.cents > 0 THEN MicroCents(c.cents)
       ELSE tracker_calculate_cost("gemini-2.5-pro", 1000, 2000)

RECURSIVE SumCostToCount(_, _)
SumCostToCount(entries, i) ==
    IF i > Len(entries) THEN 0
    ELSE CostToCount(entries[i]) + SumCostToCount(entries, i + 1)

\* C22: the cost counted for a record is its explicit cost (the flat "cost"
\* of LocalTracker, the nested cost "total" of JsonlTracker) when that value
\* is present and greater than zero, and in every other case (absent, null,
\* zero, negative, non-numeric) the cost computed from the pricing table and
\* the record's tokens: over a log of such records the aggregation returns
\* the sum of those costs as spend.
C22_ExplicitCostOnlyWhenPositive ==
    (TrackerCalled /\ out # NoOut
        /\ \A i \in DOMAIN arg.entries : CostRecord(arg.entries[i]))
    => /\ out.kind = "returned"
       /\ out.value.spend = Round4(SumCostToCount(arg.entries, 1))


\* The well-formed session lines among the samples: of the queried or of
\* another provider, of this or of another month, with or without cache
\* tokens and an explicit cost
WellFormedLines ==
    {SessionLine(ts, PlainUsage) : ts \in IsoStamps}
    \cup {SessionLine(TsMid, CacheUsage), SessionLine(TsMid, Usage(Whole(1000), Whole(1000))),
          SessionCostLine(Money(50)), SessionCostLine(Money(0)), SessionCostLine(Null),
          Dict([type |-> Str("message"), timestamp |-> TsMid,
                message |-> Dict([provider |-> Str("xai"), model |-> Str("grok-3"),
                                  usage |-> Dict(PlainUsage)])])}

JsonlCalled == arg.fn = "JsonlTracker.get_monthly_usage"

UsageOf(entry) == entry.d.message.d.usage.d

Tokens(entry, field) == Get(UsageOf(entry), field, Whole(0)).v

\* The record is of the queried provider and stamped with the current month
Matches(entry) ==
    /\ entry.d.message.d.provider = Str(arg.provider_id)
    /\ entry.d.timestamp.year = NowUtc.year
    /\ entry.d.timestamp.month = NowUtc.month

Matching == {i \in DOMAIN arg.entries : Matches(arg.entries[i])}

\* The cost of one record in micro-cents: its explicit total when positive,
\* else the price of its tokens
RecordCost(entry) ==
    LET total == Get(Get(UsageOf(entry), "cost", EmptyDict).d, "total", Null)
    IN IF total.t = "money" /\ total.cents > 0 THEN MicroCents(total.cents)
       ELSE jsonl_calculate_cost(entry.d.message.d.model.s,
                                 Tokens(entry, "input"), Tokens(entry, "output"),
                                 Tokens(entry, "cacheRead"), Tokens(entry, "cacheWrite"))

TokensInSum ==
    SumOver(Matching, [i \in DOMAIN arg.entries |->
                          Tokens(arg.entries[i], "input") + Tokens(arg.entries[i], "cacheRead")
                            + Tokens(arg.entries[i], "cacheWrite")])

TokensOutSum ==
    SumOver(Matching, [i \in DOMAIN arg.entries |-> Tokens(arg.entries[i], "output")])

CostSum == SumOver(Matching, [i \in DOMAIN arg.entries |-> RecordCost(arg.entries[i])])

AllWellFormed ==
    JsonlCalled /\ out # NoOut /\ \A i \in DOMAIN arg.entries : arg.entries[i] \in WellFormedLines

-----------------------------------------------------------------------------
(* Properties of file parsing (FileSpec) *)

Malformed1(file) ==
    Cardinality({i \in DOMAIN file.items : ~file.items[i].valid}) <= 1

\* C21: a log file is read as JSON-lines or as one JSON array according to
\* its leading content, and one malformed line or element never costs the
\* other records of the file: with at most one malformed line or element,
\* at whatever position, every well-formed record of the file reaches the
\* aggregation (LocalTracker: the entries returned are the well-formed
\* records in order; JsonlTracker, over a JSON-lines session file: the
\* totals are those of the well-formed records).
C21_MalformedItemCostsNoRecord ==
    /\ (arg.fn = "LocalTracker._parse_log_file" /\ out # NoOut /\ Malformed1(arg.file))
        => out.value = ValidValues(arg.file.items, 1)
    /\ (arg.fn = "JsonlTracker._parse_jsonl" /\ out # NoOut /\ Malformed1(arg.file)
            /\ arg.file.layout = "lines")
        => out = Jsonl_get_monthly_usage(arg.provider_id, NowUtc,
                                         ValidValues(arg.file.items, 1))

-----------------------------------------------------------------------------
(* Properties of the snapshot (SnapshotSpec) *)

\* C24: for every snapshot with current_spend >= 0, usage_percent is 0 when
\* monthly_budget <= 0 and min(100, 100 * current_spend / monthly_budget)
\* otherwise (in whole percents: 100 exactly when the spend has reached the
\* budget, else the p with p * budget <= 100 * spend < (p + 1) * budget), so
\* it lies in 0..100; and remaining is max(0, monthly_budget - current_spend),
\* never negative.
C24_PercentAndRemainingBounded ==
    LET u == arg.usage
        p == out.value
    IN /\ (arg.fn = "UsageData.usage_percent" /\ out # NoOut /\ u.current_spend >= 0)
            => /\ p >= 0 /\ p <= 100
               /\ u.monthly_budget <= 0 => p = 0
               /\ (u.monthly_budget > 0 /\ u.current_spend >= u.monthly_budget) => p = 100
               /\ (u.monthly_budget > 0 /\ u.current_spend < u.monthly_budget)
                    => /\ p * u.monthly_budget <= 100 * u.current_spend
                       /\ 100 * u.current_spend < (p + 1) * u.monthly_budget
       /\ (arg.fn = "UsageData.remaining" /\ out # NoOut /\ u.current_spend >= 0)
            => /\ p >= 0
               /\ u.monthly_budget >= u.current_spend => p = u.monthly_budget - u.current_spend
               /\ u.monthly_budget < u.current_spend => p = 0

\* An overspent snapshot whose percentage was read and capped
C24_Witness ==
    /\ arg.fn = "UsageData.usage_percent"
    /\ arg.usage.monthly_budget > 0
    /\ arg.usage.current_spend > arg.usage.monthly_budget
    /\ out = [kind |-> "returned", value |-> 100]

-----------------------------------------------------------------------------
(* Properties of the paginated fetches (PagerSpec, PagerFairSpec) *)

CostFetch == arg.fn = "AnthropicProvider._call_cost_api"

\* Each request after the first carries the next_page token of the page before
\* it, which announced more; the first carries none; the loop goes on exactly
\* while the page just read reports has_more with a token, and returns at the
\* first page that does not.
PagesChained ==
    /\ pager # NoPager
        => /\ pager.asked = (IF pager.before = <<>> THEN <<>>
                             ELSE <<pager.before[1].next_page>>)
           /\ pager.before # <<>> => ~LoopEnds(pager.before[1])
    /\ (pager # NoPager /\ pager.pc = "loop")
        => /\ ~LoopEnds(pager.last[1])
           /\ pager.page = pager.last[1].next_page
    /\ out.kind = "returned" => LoopEnds(pager.last[1])

\* C25 as stated: when every page request succeeds, the spend returned by
\* the Anthropic cost fetch is the sum of the amounts of all results of all
\* pages up to and including the first page without has_more or without a
\* next_page token, divided by 100 (the spend, in units of 1e-4 dollars,
\* times 10000 is the sum in millionths of a cent), each later page being
\* requested once with the token of the page before it.
C25_SpendIsExactSumOfPages ==
    CostFetch
    => /\ PagesChained
       /\ out.kind = "returned" => out.value.spend * 10000 = pager.received

\* C25, amended: the spend returned is that sum of amounts, converted to
\* dollars and rounded to four decimal places; each page after the first is
\* requested once, with the next_page token of the page before it, up to and
\* including the first page without has_more or without a token.
C25_SpendIsRoundedSumOfPages ==
    CostFetch
    => /\ PagesChained
       /\ out.kind = "returned" => out.value.spend = Round4(pager.received)

\* The fetch returned after a second page, both pages carrying results
C25_Witness ==
    /\ CostFetch
    /\ out.kind = "returned"
    /\ pager.before # <<>>
    /\ pager.asked \in {<<"p2">>, <<"p3">>}
    /\ pager.data_pages = 2
    /\ out.value.spend > 0

\* C29: the paginated fetches terminate for every sequence of server
\* responses: whatever pages the server sends, also when every page reports
\* has_more with a non-empty next_page token or repeats a token, the loop
\* eventually stops requesting and the function returns or raises.
C29_PaginationTerminates == <>(pager.pc = "done")

-----------------------------------------------------------------------------
(* Properties of concurrent notifier calls (ConcurrentSpec) *)

\* C26: the alert check is atomic per provider: under every interleaving of
\* two concurrent check_and_notify calls for the same provider, a reached and
\* not yet notified (provider, threshold) pair and successful deliveries,
\* the pair's notification is delivered exactly once: never twice, and once
\* when both calls have ended.
C26_OneDeliveryPerPairUnderConcurrency ==
    (callers # NoCallers /\ arg.calls[1].provider_id = arg.calls[2].provider_id)
    => \A k \in AlertKeys :
        /\ deliveries[k] <= 1
        /\ ((\A c \in Callers : callers[c].pc = "done") /\ k \in sent_alerts)
            => deliveries[k] = 1

-----------------------------------------------------------------------------
(* Lifetime and scope of the notified pairs (NotifierSpec) *)

\* The usage values a later call may come with: those of the calls, and one
\* below and one above every threshold.
LaterUsages == Usages \cup {0, 100}

\* The pairs of the providers other than pid.
PairsOfOthers(pid, keys) == {k \in keys : k[1] # pid}

\* C27: a notified pair stays notified through every later check_and_notify
\* call, whatever usage_percent the call reports (below the threshold
\* included) and whatever its deliveries do; and the month rollover step of a
\* refresh pass, the only caller of reset_alerts, empties the sent-set when
\* the month it reads differs from the month last observed and leaves it as
\* it is when the month is the same.
C27_NotifiedUntilMonthRollover ==
    /\ last_call.kind = "call" => last_call.pre \subseteq ThresholdsOf(watched, sent_alerts)
    /\ \A pid \in NotifierProviders, percent \in LaterUsages :
       \A outs \in OutcomeChoices(pid, percent, alertThresholds, sent_alerts) :
            sent_alerts \subseteq
                check_and_notify(pid, percent, alertThresholds, outs, sent_alerts).sent
    /\ \A month, last \in Months :
            LET r == MonthRollover(month, last, usage_data, sent_alerts)
            IN /\ month = last => r.sent = sent_alerts
               /\ month # last => r.sent = {}

\* A call with a usage below every threshold has ended, and the pairs notified
\* before it are still notified.
C27_Witness ==
    /\ last_call.kind = "call"
    /\ last_call.usage = 70
    /\ last_call.pre # {}
    /\ last_call.pre \subseteq ThresholdsOf(watched, sent_alerts)

\* C28: a check_and_notify call for provider P adds and removes only pairs of
\* P: the notified pairs of every other provider are the same after the call
\* as before it, so one provider's alert at a threshold never keeps another
\* provider from alerting at that threshold.
C28_CallChangesOnlyItsProvider ==
    \A pid \in NotifierProviders, percent \in LaterUsages :
    \A outs \in OutcomeChoices(pid, percent, alertThresholds, sent_alerts) :
        LET res == check_and_notify(pid, percent, alertThresholds, outs, sent_alerts)
        IN /\ PairsOfOthers(pid, res.sent) = PairsOfOthers(pid, sent_alerts)
           /\ \A i \in 1..Len(alertThresholds) :
                (percent >= alertThresholds[i]
                    /\ AlertKey(pid, alertThresholds[i]) \notin sent_alerts)
                => alertThresholds[i] \in Tried(res.attempts)

\* The watched provider was notified at a threshold in its last call while the
\* other provider's pair at that threshold was notified already, the other
\* provider's pairs being what they were.
C28_Witness ==
    /\ last_call.kind = "call"
    /\ \E other \in NotifierProviders \ {watched} :
       \E t \in DeliveredIn(last_call.attempts) :
            /\ AlertKey(other, t) \in sent_alerts
            /\ AlertKey(watched, t) \in sent_alerts
            /\ ThresholdsOf(other, sent_alerts) # ThresholdsOf(watched, sent_alerts)

-----------------------------------------------------------------------------
(* Properties of the refresh lock (PagedFairSpec) *)

\* C30: the refresh lock is released at the end of every pass that acquired
\* it, also when _refresh_data raises, and the UI update is scheduled after
\* the release: a thread that is scheduling or has scheduled the update does
\* not hold the lock, and every thread that holds the lock eventually has
\* released it and scheduled the update; so the lock is free again and again,
\* and refreshes are never suppressed forever.
C30_LockReleasedRefreshNeverSuppressedForever ==
    /\ [](\A t \in Threads : pc[t] \in {"schedule", "done"} => refresh_lock # t)
    /\ \A t \in Threads : (refresh_lock = t) ~> (pc[t] = "done")
    /\ []<>(refresh_lock = 0)

====
